---------------------------- MODULE Spec2Model ----------------------------
(***************************************************************************)
(* A model of litl/shuttle: the service registry, the TCP service engine   *)
(* and the balancers.  The sources hold several generations of the same    *)
(* files; each definition names the generation it is translated from:      *)
(*   unnamed/part_003  Service with Start() (registers itself), seconds    *)
(*   unnamed/part_004  Service with add/remove/start/stop, milliseconds    *)
(*   unnamed/part_007  ServiceRegistry with Add/Remove/Get/Stats/Config    *)
(*   unnamed/part_002  roundRobin / leastConn                              *)
(*   unnamed/part_006  client ServiceConfig (SetDefaults, Merge, ...)      *)
(*   http.go           the admin handlers                                  *)
(* The control plane the specification describes (AddService,              *)
(* UpdateService, RemoveService, virtual hosts, global defaults) is not in *)
(* the sources; it is modelled from the specification and marked so.       *)
(***************************************************************************)
EXTENDS Integers, Sequences, FiniteSets, TLC

VARIABLES
    svcs,       \* Registry.svcs: service name -> Service (a Go map)
    listeners,  \* the listening sockets open in the process: [addr, owner]
    last,       \* the last control-plane call and what it returned
    vhosts,     \* Registry.vhosts: hostname -> sequence of service names
    globalCfg,  \* Registry.cfg: the global defaults
    rr,         \* the service the balancer runs on
    picks,      \* the backends selected so far by next(), oldest first
    regLock,    \* the holders of the registry mutex
    wpc,        \* the mutating request: its position and arguments
    rpc,        \* the Config()/Stats() reader: its position and partial result
    commits,    \* cur: the registry state last published by a mutation;
                \* seen: the states published while the reader reads
    sessions,   \* the proxy sessions started by Backend.Proxy
    detached    \* the Backend objects that left their service's list

vars == <<svcs, listeners, last, vhosts, globalCfg, rr, picks, regLock, wpc, rpc, commits, sessions,
          detached>>

----------------------------------------------------------------------------
(* Bounds of the model *)

MaxTimeout == 2
MaxBackends == 2
MaxWeight == 3
MaxPicks == 12

(* Program constants *)

Second == 1000000000
Millisecond == 1000000
DefaultCheck == 2
DefaultRise == 2
DefaultFall == 2
StatusOK == 200
StatusNotFound == 404
StatusInternalServerError == 500

Nil == "nil"
Names == {"s1", "s2"}
Addrs == {"a1", "a2"}
BName == <<"b1", "b2", "b3", "b4">>
Hosts == {"h1", "h2"}

----------------------------------------------------------------------------
(* Sequence helpers *)

Range(s) == {s[i] : i \in 1..Len(s)}

(* Go maps: a function whose domain is the set of keys present *)
EmptyMap == [k \in {} |-> 0]
MapPut(m, k, v) == [x \in DOMAIN m \cup {k} |-> IF x = k THEN v ELSE m[x]]
MapDel(m, k) == [x \in DOMAIN m \ {k} |-> m[x]]

IndexOf(s, P(_)) ==
    IF \E i \in 1..Len(s) : P(s[i])
    THEN CHOOSE i \in 1..Len(s) : P(s[i]) /\ \A j \in 1..(i - 1) : ~P(s[j])
    ELSE 0

----------------------------------------------------------------------------
(* Backend: server_test.go 69-128 *)

BackendConfig(name, weight) ==
    [Name |-> name, Addr |-> name, Check |-> "", Weight |-> weight]

NewBackend(cfg) ==
    [Name |-> cfg.Name, Addr |-> cfg.Addr, Check |-> cfg.Check, Weight |-> cfg.Weight,
     up |-> FALSE, rwTimeout |-> 0, dialTimeout |-> 0, checkInterval |-> 0,
     rise |-> 0, riseCount |-> 0, fall |-> 0, fallCount |-> 0,
     Active |-> 0,
     stopCheck |-> "open", starts |-> 0, once |-> FALSE, loops |-> 0,
     armed |-> FALSE, lateChecks |-> 0, early |-> FALSE]

BackendConfigOf(b) ==
    [Name |-> b.Name, Addr |-> b.Addr, Check |-> b.Check, Weight |-> b.Weight]

----------------------------------------------------------------------------
(* Service, unnamed/part_004 *)

(* Backend.Start, server_test.go 172-174: go b.startCheck.Do(b.healthCheck) *)
(* spawns a goroutine that has not reached Do yet.                         *)
BackendStart(b) == [b EXCEPT !.starts = @ + 1]

(* Backend.Stop, server_test.go 176-178: close(b.stopCheck); closing the   *)
(* channel a second time panics.                                           *)
StopPanics(b) == b.stopCheck = "closed"

(* early notes that the Stop came before the health-check loop began *)
BackendStop(b) == [b EXCEPT !.stopCheck = "closed", !.early = ~b.once]

(* an add that appends whatever the list holds *)
ServiceAdd_append(s, backend) ==
    [s EXCEPT !.Backends =
        Append(s.Backends,
               BackendStart([backend EXCEPT !.up = TRUE, !.rwTimeout = s.ServerTimeout,
                                            !.dialTimeout = s.DialTimeout,
                                            !.checkInterval = s.CheckInterval * Millisecond]))]

(* Service.add, part_004 182-204: replace a backend of the same name in    *)
(* place, append otherwise; the service's timeouts go into the backend     *)
(* before it is started.                                                   *)
ServiceAdd(s, backend) ==
    LET b == BackendStart([backend EXCEPT !.up = TRUE,
                             !.rwTimeout = s.ServerTimeout,
                             !.dialTimeout = s.DialTimeout,
                             !.checkInterval = s.CheckInterval * Millisecond])
        i == IndexOf(s.Backends, LAMBDA x : x.Name = b.Name)
    IN  IF i # 0
        THEN [s EXCEPT !.Backends = [s.Backends EXCEPT ![i] = b]]
        ELSE [s EXCEPT !.Backends = Append(s.Backends, b)]

(* a remove that empties the list *)
ServiceRemove_all(s, name) == [s EXCEPT !.Backends = <<>>]

(* a remove that leaves the list as it was *)
ServiceRemove_keep(s, name) == s

(* Service.remove, part_004 207-222: the last backend takes the place of   *)
(* the removed one.                                                        *)
ServiceRemove(s, name) ==
    LET i == IndexOf(s.Backends, LAMBDA x : x.Name = name)
        n == Len(s.Backends)
    IN  IF i = 0 THEN s
        ELSE [s EXCEPT !.Backends =
                 SubSeq([s.Backends EXCEPT ![i] = s.Backends[n]], 1, n - 1)]

RECURSIVE AddAll(_, _)
AddAll(s, cfgs) ==
    IF cfgs = <<>> THEN s
    ELSE AddAll(ServiceAdd(s, NewBackend(Head(cfgs))), Tail(cfgs))

(* The balancer NewService selects, part_004 103-110: an unknown value is  *)
(* logged and leaves next nil.                                             *)
NextOf(balance) ==
    CASE balance \in {"RR", ""} -> "roundRobin"
      [] balance = "LC"         -> "leastConn"
      [] OTHER                  -> Nil

(* NewService, part_004 77-113.  Balance is not copied into the Service.   *)
NewService(cfg) ==
    LET s0 == [Name |-> cfg.Name, Addr |-> cfg.Addr, Backends |-> <<>>,
               Balance |-> "",
               CheckInterval |-> IF cfg.CheckInterval = 0 THEN DefaultCheck ELSE cfg.CheckInterval,
               Fall |-> IF cfg.Fall = 0 THEN DefaultFall ELSE cfg.Fall,
               Rise |-> IF cfg.Rise = 0 THEN DefaultRise ELSE cfg.Rise,
               ClientTimeout |-> cfg.ClientTimeout * Millisecond,
               ServerTimeout |-> cfg.ServerTimeout * Millisecond,
               DialTimeout |-> cfg.DialTimeout * Millisecond,
               next |-> Nil, lastBackend |-> 0, lastCount |-> 0,
               listener |-> Nil]
    IN  [AddAll(s0, cfg.Backends) EXCEPT !.next = NextOf(cfg.Balance)]

(* Service.Config, part_004 143-163 *)
ServiceConfigOf(s) ==
    [Name |-> s.Name, Addr |-> s.Addr, Balance |-> s.Balance,
     CheckInterval |-> s.CheckInterval, Fall |-> s.Fall, Rise |-> s.Rise,
     ClientTimeout |-> s.ClientTimeout \div Millisecond,
     ServerTimeout |-> s.ServerTimeout \div Millisecond,
     DialTimeout |-> s.DialTimeout \div Millisecond,
     Backends |-> [i \in 1..Len(s.Backends) |-> BackendConfigOf(s.Backends[i])]]

(* newTimeoutListener, proxy.go 71-82: net.Listen fails on an address that *)
(* already has a listening socket.                                         *)
CanBind(ls, addr) == ~\E l \in ls : l.addr = addr

(* Service.start, part_004 225-240: the listener is nil after a failure.   *)
ServiceStart(s, ls) ==
    IF CanBind(ls, s.Addr) THEN [s EXCEPT !.listener = "open"]
    ELSE [s EXCEPT !.listener = Nil]

ListenersAfterStart(s, ls) ==
    IF CanBind(ls, s.Addr) THEN ls \cup {[addr |-> s.Addr, owner |-> s.Name]}
    ELSE ls

(* Service.stop, part_004 270-287: closes the listener unless it is nil.   *)
ListenersAfterStop(s, ls) ==
    IF s.listener = "open" THEN ls \ {[addr |-> s.Addr, owner |-> s.Name]}
    ELSE ls

----------------------------------------------------------------------------
(* Service, unnamed/part_003: the generation the handlers of http.go call *)

RECURSIVE AppendAll_v0(_, _)
AppendAll_v0(bs, cfgs) ==
    IF cfgs = <<>> THEN bs
    ELSE AppendAll_v0(Append(bs, NewBackend(Head(cfgs))), Tail(cfgs))

(* NewService, part_003 180-199: timeouts in seconds, the backends are     *)
(* appended as they come.                                                  *)
NewService_v0(cfg) ==
    [Name |-> cfg.Name, Addr |-> cfg.Addr,
     Backends |-> AppendAll_v0(<<>>, cfg.Backends),
     Balance |-> cfg.Balance,
     CheckInterval |-> cfg.CheckInterval, Fall |-> cfg.Fall, Rise |-> cfg.Rise,
     ClientTimeout |-> cfg.ClientTimeout * Second,
     ServerTimeout |-> cfg.ServerTimeout * Second,
     DialTimeout |-> cfg.DialTimeout * Second,
     next |-> Nil, lastBackend |-> 0, lastCount |-> 0, listener |-> Nil]

(* Service.Start, part_003 252-281: the error it returns, "" for none.     *)
StartError_v0(s, ls) ==
    IF s.Balance \notin {"", "RR", "LC"} THEN "invalid balancing algorithm"
    ELSE IF ~CanBind(ls, s.Addr) THEN "bind"
    ELSE ""

(* Service.Start, part_003 252-281: the started service.                   *)
Started_v0(s) ==
    [s EXCEPT !.Balance = IF s.Balance = "" THEN "RR" ELSE s.Balance,
              !.next = NextOf(s.Balance),
              !.listener = "open"]


(* Service.Stats / Backend.Stats, part_004 115-141 and server_test.go      *)
(* 132-150: the fields of the snapshot that the model keeps.               *)
BackendStatOf(b) ==
    [Name |-> b.Name, Addr |-> b.Addr, Check |-> b.Check, Up |-> b.up,
     Weight |-> b.Weight, Active |-> b.Active]

RECURSIVE SumActive(_)
SumActive(bs) == IF bs = <<>> THEN 0 ELSE Head(bs).Active + SumActive(Tail(bs))

ServiceStatOf(s) ==
    [Name |-> s.Name, Addr |-> s.Addr, Balance |-> s.Balance,
     CheckInterval |-> s.CheckInterval, Fall |-> s.Fall, Rise |-> s.Rise,
     ClientTimeout |-> s.ClientTimeout \div Millisecond,
     ServerTimeout |-> s.ServerTimeout \div Millisecond,
     DialTimeout |-> s.DialTimeout \div Millisecond,
     Backends |-> [i \in 1..Len(s.Backends) |-> BackendStatOf(s.Backends[i])],
     Active |-> SumActive(s.Backends)]

----------------------------------------------------------------------------
(* Configurations the requests carry *)

SvcConfig(name, addr, balance, backends, hosts, timeout) ==
    [Name |-> name, Addr |-> addr, Balance |-> balance, Backends |-> backends,
     VirtualHosts |-> hosts,
     CheckInterval |-> 0, Fall |-> 0, Rise |-> 0,
     ClientTimeout |-> 0, ServerTimeout |-> timeout, DialTimeout |-> 0]

BackendList(k) == [i \in 1..k |-> BackendConfig(BName[i], 1)]

(* the prefixes <<>>, <<b1>>, <<b1, b2>>, ... and the last backend alone *)
BackendCfgLists ==
    {BackendList(k) : k \in 0..MaxBackends}
        \cup {<<BackendConfig(BName[MaxBackends], 1)>>}

----------------------------------------------------------------------------
(* ServiceRegistry, unnamed/part_007 *)

Registered == DOMAIN svcs

(* Faulty variants of Remove: one that removes some service when the name  *)
(* is unknown, one that returns the service without deleting it.           *)
Remove_any(m, name) ==
    IF DOMAIN m = {} THEN [svcs |-> m, svc |-> <<>>]
    ELSE LET k == IF name \in DOMAIN m THEN name ELSE CHOOSE x \in DOMAIN m : TRUE
         IN  [svcs |-> MapDel(m, k), svc |-> <<m[k]>>]

Remove_keep(m, name) ==
    IF name \in DOMAIN m THEN [svcs |-> m, svc |-> <<m[name]>>]
    ELSE [svcs |-> m, svc |-> <<>>]

(* ServiceRegistry.Remove, part_007 23-34: the map without the name and    *)
(* the service removed, <<>> for the nil it returns on an unknown name.    *)
RegistryRemove(m, name) ==
    IF name \in DOMAIN m
    THEN [svcs |-> MapDel(m, name), svc |-> <<m[name]>>]
    ELSE [svcs |-> m, svc |-> <<>>]

Result(op, name, err, status, dup, same) ==
    [op |-> op, name |-> name, err |-> err, status |-> status,
     dup |-> dup, same |-> same,
     changed |-> (svcs' # svcs \/ listeners' # listeners)]

(* ServiceRegistry.Add, part_007 15-21: the service is stored under its    *)
(* name, then started; Start's error is returned.                          *)
RegistryAdd(cfg) ==
    LET svc == NewService(cfg)
    IN  /\ svcs' = MapPut(svcs, svc.Name, ServiceStart(svc, listeners))
        /\ listeners' = ListenersAfterStart(svc, listeners)
        /\ last' = Result("Add", svc.Name,
                          IF CanBind(listeners, svc.Addr) THEN "" ELSE "bind",
                          0, svc.Name \in Registered,
                          svc.Name \in Registered /\
                              ServiceConfigOf(svcs[svc.Name]) = ServiceConfigOf(svc))
        /\ UNCHANGED <<vhosts, globalCfg, rr, picks, regLock, wpc, rpc, commits, sessions, detached>>

(* deleteService, http.go 74-84: Registry.Remove, which stops the service  *)
(* it removed; 404 when it returns nil.                                    *)
deleteService(name) ==
    LET r == RegistryRemove(svcs, name)
    IN  /\ svcs' = r.svcs
        /\ listeners' = IF r.svc = <<>> THEN listeners
                        ELSE ListenersAfterStop(r.svc[1], listeners)
        /\ last' = IF r.svc = <<>>
                   THEN Result("Remove", name, "service not found",
                               StatusNotFound, FALSE, FALSE)
                   ELSE Result("Remove", name, "", StatusOK, TRUE, FALSE)
        /\ UNCHANGED <<vhosts, globalCfg, rr, picks, regLock, wpc, rpc, commits, sessions, detached>>

(* postService, http.go 42-72: NewService, then Service.Start, which       *)
(* registers the service (Registry.Add, part_003 379-384) once it listens. *)
postService(cfg) ==
    LET service == NewService_v0(cfg)
        e == StartError_v0(service, listeners)
    IN  /\ IF e = ""
           THEN /\ svcs' = MapPut(svcs, service.Name, Started_v0(service))
                /\ listeners' = listeners \cup
                                  {[addr |-> service.Addr, owner |-> service.Name]}
           ELSE UNCHANGED <<svcs, listeners>>
        /\ last' = Result("PUT", service.Name, e,
                          IF e = "" THEN StatusOK ELSE StatusInternalServerError,
                          service.Name \in Registered,
                          service.Name \in Registered /\
                              svcs[service.Name] = Started_v0(service))
        /\ UNCHANGED <<vhosts, globalCfg, rr, picks, regLock, wpc, rpc, commits, sessions, detached>>

SrcCfgs ==
    {SvcConfig(n, a, bal, bs, <<>>, 0) :
        n \in Names, a \in Addrs, bal \in {"", "XX"},
        bs \in {BackendList(0), BackendList(1)}}

NoResult ==
    [op |-> "init", name |-> "", err |-> "", status |-> 0,
     dup |-> FALSE, same |-> FALSE, changed |-> FALSE]

NoGlobal ==
    [Balance |-> "", CheckInterval |-> 0, Fall |-> 0, Rise |-> 0,
     ClientTimeout |-> 0, ServerTimeout |-> 0, DialTimeout |-> 0]

NoService == NewService(SvcConfig("", "", "", <<>>, <<>>, 0))

Idle ==
    /\ rr = NoService
    /\ picks = <<>>
    /\ regLock = {}
    /\ wpc = [pc |-> "idle"]
    /\ rpc = [pc |-> "idle"]
    /\ commits = {}
    /\ sessions = {}
    /\ detached = {}

Init ==
    /\ svcs = EmptyMap
    /\ listeners = {}
    /\ last = NoResult
    /\ vhosts = EmptyMap
    /\ globalCfg = NoGlobal
    /\ Idle

Next ==
    \/ \E cfg \in SrcCfgs : RegistryAdd(cfg)
    \/ \E cfg \in SrcCfgs : postService(cfg)
    \/ \E name \in Names : deleteService(name)

Spec == Init /\ [][Next]_vars

(* C2: an Add under a name that is already registered returns an error and *)
(* leaves the registry as it was.                                          *)
C2_DuplicateAddRejected ==
    (last.op = "Add" /\ last.dup) => (last.err # "" /\ ~last.changed)

(* C4: an Add whose start fails to bind returns the error and the service  *)
(* is not in the registry afterwards.                                      *)
C4_BindFailureNotRegistered ==
    (last.op = "Add" /\ last.err = "bind" /\ ~last.dup)
        => last.name \notin Registered

(* C5: no service with an invalid balance value is ever registered: every  *)
(* registered service has a balancer.                                      *)
C5_InvalidBalanceRejected ==
    \A n \in Registered : svcs[n].next # Nil

(* C7: an add-or-replace request that repeats the configuration of the     *)
(* registered service completes with the configuration, not with an error. *)
C7_SameConfigPutCompletes ==
    (last.op = "PUT" /\ last.same) => last.status = StatusOK

(* C18: each service name has at most one open listener, and every open    *)
(* listener is the one of the service registered under its owner's name.   *)
C18_OneListenerPerName ==
    /\ \A n \in Names : Cardinality({l \in listeners : l.owner = n}) <= 1
    /\ \A l \in listeners :
          /\ l.owner \in Registered
          /\ svcs[l.owner].Addr = l.addr
          /\ svcs[l.owner].listener = "open"

----------------------------------------------------------------------------
(* The control plane of the specification: AddService, UpdateService,      *)
(* RemoveService and UpdateGlobalConfig over the registry, with virtual    *)
(* hosts and global defaults.  These operations are not in the sources;    *)
(* they are written from the specification on top of the Service and       *)
(* registry operations that are.                                           *)

(* ServiceConfig.Merge, part_006 290-337: the name is taken from cfg, a    *)
(* zero field of s is filled from cfg, a set field is kept.                *)
Merge(s, cfg) ==
    [s EXCEPT !.Name = cfg.Name,
              !.Addr = IF s.Addr = "" THEN cfg.Addr ELSE s.Addr,
              !.Balance = IF s.Balance = "" THEN cfg.Balance ELSE s.Balance,
              !.CheckInterval = IF s.CheckInterval = 0 THEN cfg.CheckInterval ELSE s.CheckInterval,
              !.Fall = IF s.Fall = 0 THEN cfg.Fall ELSE s.Fall,
              !.Rise = IF s.Rise = 0 THEN cfg.Rise ELSE s.Rise,
              !.ClientTimeout = IF s.ClientTimeout = 0 THEN cfg.ClientTimeout ELSE s.ClientTimeout,
              !.ServerTimeout = IF s.ServerTimeout = 0 THEN cfg.ServerTimeout ELSE s.ServerTimeout,
              !.DialTimeout = IF s.DialTimeout = 0 THEN cfg.DialTimeout ELSE s.DialTimeout,
              !.VirtualHosts = IF s.VirtualHosts = <<>> THEN cfg.VirtualHosts ELSE s.VirtualHosts,
              !.Backends = IF s.Backends = <<>> THEN cfg.Backends ELSE s.Backends]

(* The global config seen as the ServiceConfig that Merge takes: it has no *)
(* address, backends or virtual hosts of its own.                          *)
GlobalAsService(g, name) ==
    [Name |-> name, Addr |-> "", Balance |-> g.Balance, Backends |-> <<>>,
     VirtualHosts |-> <<>>,
     CheckInterval |-> g.CheckInterval, Fall |-> g.Fall, Rise |-> g.Rise,
     ClientTimeout |-> g.ClientTimeout, ServerTimeout |-> g.ServerTimeout,
     DialTimeout |-> g.DialTimeout]

(* A Service with the virtual_hosts of its configuration *)
WithVHosts(s, hosts) ==
    [f \in DOMAIN s \cup {"VirtualHosts"} |->
        IF f = "VirtualHosts" THEN hosts ELSE s[f]]

(* VirtualHost.Add: append the service unless it is already listed; the    *)
(* entry is created when absent.                                           *)
Bind(vh, host, name) ==
    IF host \in DOMAIN vh
    THEN IF name \in Range(vh[host]) THEN vh
         ELSE MapPut(vh, host, Append(vh[host], name))
    ELSE MapPut(vh, host, <<name>>)

(* VirtualHost.Remove: drop the service; the entry is deleted when its     *)
(* list empties.                                                           *)
Unbind(vh, host, name) ==
    IF host \notin DOMAIN vh THEN vh
    ELSE LET rest == SelectSeq(vh[host], LAMBDA x : x # name)
         IN  IF rest = <<>> THEN MapDel(vh, host) ELSE MapPut(vh, host, rest)

RECURSIVE BindAll(_, _, _)
BindAll(vh, hosts, name) ==
    IF hosts = <<>> THEN vh
    ELSE BindAll(Bind(vh, Head(hosts), name), Tail(hosts), name)

RECURSIVE UnbindAll(_, _, _)
UnbindAll(vh, hosts, name) ==
    IF hosts = <<>> THEN vh
    ELSE UnbindAll(Unbind(vh, Head(hosts), name), Tail(hosts), name)

ValidBalance(b) == b \in {"", "RR", "LC"}

RegResult(op, name, err, status, existed, cfg) ==
    [op |-> op, name |-> name, err |-> err, status |-> status,
     existed |-> existed, cfg |-> cfg, global |-> globalCfg,
     changed |-> (svcs' # svcs \/ vhosts' # vhosts \/ listeners' # listeners)]

(* AddService: fails on a registered name; merges the global defaults into *)
(* cfg; creates and starts the Service; a bind error or an invalid balance *)
(* is reported and nothing is registered; binds the virtual hosts.         *)
AddService(cfg) ==
    LET merged == Merge(cfg, GlobalAsService(globalCfg, cfg.Name))
        svc == NewService(merged)
        err == IF cfg.Name \in Registered THEN "service exists"
               ELSE IF ~ValidBalance(merged.Balance) THEN "invalid balancing algorithm"
               ELSE IF ~CanBind(listeners, svc.Addr) THEN "bind"
               ELSE ""
    IN  /\ IF err = ""
           THEN /\ svcs' = MapPut(svcs, svc.Name,
                                  WithVHosts(ServiceStart(svc, listeners), merged.VirtualHosts))
                /\ listeners' = ListenersAfterStart(svc, listeners)
                /\ vhosts' = BindAll(vhosts, merged.VirtualHosts, svc.Name)
           ELSE UNCHANGED <<svcs, listeners, vhosts>>
        /\ last' = RegResult("Add", cfg.Name, err,
                             IF err = "" THEN StatusOK ELSE StatusInternalServerError,
                             cfg.Name \in Registered, cfg)
        /\ UNCHANGED <<globalCfg, rr, picks, regLock, wpc, rpc, commits, sessions, detached>>

(* UpdateService: the service must exist; the old Service is stopped, the  *)
(* replacement is created from cfg and started under the same name, and    *)
(* the vhost membership is reconciled.  A replacement that cannot be       *)
(* created or cannot bind is reported and nothing changes.                 *)
UpdateService(cfg) ==
    LET existed == cfg.Name \in Registered
        freed == IF existed THEN ListenersAfterStop(svcs[cfg.Name], listeners)
                 ELSE listeners
        svc == NewService(cfg)
        err == IF ~existed THEN "service not found"
               ELSE IF ~ValidBalance(cfg.Balance) THEN "invalid balancing algorithm"
               ELSE IF ~CanBind(freed, svc.Addr) THEN "bind"
               ELSE ""
    IN  /\ IF err = ""
           THEN /\ svcs' = MapPut(svcs, svc.Name,
                                  WithVHosts(ServiceStart(svc, freed), cfg.VirtualHosts))
                /\ listeners' = ListenersAfterStart(svc, freed)
                /\ vhosts' = BindAll(UnbindAll(vhosts, svcs[cfg.Name].VirtualHosts, svc.Name),
                                     cfg.VirtualHosts, svc.Name)
           ELSE UNCHANGED <<svcs, listeners, vhosts>>
        /\ last' = RegResult("Update", cfg.Name, err,
                             IF err = "" THEN StatusOK
                             ELSE IF ~existed THEN StatusNotFound
                             ELSE StatusInternalServerError,
                             existed, cfg)
        /\ UNCHANGED <<globalCfg, rr, picks, regLock, wpc, rpc, commits, sessions, detached>>

(* RemoveService under deleteService, http.go 74-84: Registry.Remove       *)
(* (part_007 23-34) stops the service; its virtual hosts are unbound; 404  *)
(* when there is no such service.                                          *)
RemoveService(name) ==
    LET r == RegistryRemove(svcs, name)
    IN  /\ svcs' = r.svcs
        /\ listeners' = IF r.svc = <<>> THEN listeners
                        ELSE ListenersAfterStop(r.svc[1], listeners)
        /\ vhosts' = IF r.svc = <<>> THEN vhosts
                     ELSE UnbindAll(vhosts, r.svc[1].VirtualHosts, name)
        /\ last' = IF r.svc = <<>>
                   THEN RegResult("Remove", name, "service not found",
                                  StatusNotFound, name \in Registered, <<>>)
                   ELSE RegResult("Remove", name, "", StatusOK,
                                  name \in Registered, <<>>)
        /\ UNCHANGED <<globalCfg, rr, picks, regLock, wpc, rpc, commits, sessions, detached>>

(* UpdateGlobalConfig: stores the new defaults *)
UpdateGlobalConfig(g) ==
    /\ globalCfg' = g
    /\ last' = [op |-> "Global", name |-> "", err |-> "", status |-> StatusOK,
                existed |-> FALSE, cfg |-> <<>>, global |-> g, changed |-> FALSE]
    /\ UNCHANGED <<svcs, listeners, vhosts, rr, picks, regLock, wpc, rpc, commits, sessions, detached>>

GlobalCfgs ==
    {NoGlobal,
     [Balance |-> "LC", CheckInterval |-> 3, Fall |-> 3, Rise |-> 3,
      ClientTimeout |-> MaxTimeout, ServerTimeout |-> MaxTimeout,
      DialTimeout |-> MaxTimeout],
     [Balance |-> "RR", CheckInterval |-> 0, Fall |-> 0, Rise |-> 4,
      ClientTimeout |-> 0, ServerTimeout |-> MaxTimeout, DialTimeout |-> 0]}

RegCfgs ==
    UNION {{SvcConfig(n, "a1", "", BackendList(1), <<"h1">>, 0),
            SvcConfig(n, "a2", "LC", BackendList(MaxBackends), <<"h1", "h2">>, 1),
            SvcConfig(n, "a1", "XX", BackendList(0), <<>>, 0),
            SvcConfig(n, "a1", "RR", <<BackendConfig(BName[MaxBackends], 1)>>, <<"h2">>, 0)}
           : n \in Names}

InitReg ==
    /\ svcs = EmptyMap
    /\ listeners = {}
    /\ last = [op |-> "init", name |-> "", err |-> "", status |-> 0,
               existed |-> FALSE, cfg |-> <<>>, global |-> NoGlobal,
               changed |-> FALSE]
    /\ vhosts = EmptyMap
    /\ globalCfg = NoGlobal
    /\ Idle

NextReg ==
    \/ \E cfg \in RegCfgs : AddService(cfg)
    \/ \E cfg \in RegCfgs : UpdateService(cfg)
    \/ \E name \in Names : RemoveService(name)
    \/ \E g \in GlobalCfgs : UpdateGlobalConfig(g)

SpecReg == InitReg /\ [][NextReg]_vars

C3_UnknownNameRejected ==
    (last.op \in {"Update", "Remove"} /\ ~last.existed)
        => /\ last.err # ""
           /\ ~last.changed
           /\ last.op = "Remove" => last.status = StatusNotFound

(* a delete of an unknown name while another service is registered *)
C3_Witness ==
    /\ last.op = "Remove" /\ ~last.existed
    /\ last.status = StatusNotFound
    /\ Registered # {}

Filled(own, global, got, zero) ==
    IF own # zero THEN got = own ELSE (global # zero => got = global)

(* C8: after a successful UpdateService(cfg) the registry's configuration  *)
(* for the name is cfg with the defaults applied.                          *)
C8_UpdateEqualsCfg ==
    (last.op = "Update" /\ last.err = "")
        => LET c == ServiceConfigOf(svcs[last.name])
               cfg == last.cfg
           IN  /\ last.name \in Registered
               /\ c.Name = cfg.Name
               /\ c.Addr = cfg.Addr
               /\ c.Balance = (IF cfg.Balance = "" THEN "RR" ELSE cfg.Balance)
               /\ c.ServerTimeout = cfg.ServerTimeout
               /\ c.ClientTimeout = cfg.ClientTimeout
               /\ c.DialTimeout = cfg.DialTimeout
               /\ c.Backends = cfg.Backends
               /\ svcs[last.name].VirtualHosts = cfg.VirtualHosts

(* C9: AddService fills each zero field of the new service from the global *)
(* config and keeps each field the service config sets.                    *)
C9_GlobalDefaultsFilled ==
    (last.op = "Add" /\ last.err = "")
        => LET c == ServiceConfigOf(svcs[last.name])
               cfg == last.cfg
               g == last.global
           IN  /\ Filled(cfg.Balance, g.Balance, c.Balance, "")
               /\ Filled(cfg.CheckInterval, g.CheckInterval, c.CheckInterval, 0)
               /\ Filled(cfg.Fall, g.Fall, c.Fall, 0)
               /\ Filled(cfg.Rise, g.Rise, c.Rise, 0)
               /\ Filled(cfg.ClientTimeout, g.ClientTimeout, c.ClientTimeout, 0)
               /\ Filled(cfg.ServerTimeout, g.ServerTimeout, c.ServerTimeout, 0)
               /\ Filled(cfg.DialTimeout, g.DialTimeout, c.DialTimeout, 0)

----------------------------------------------------------------------------
(* The registry mutex: a mutating request and a Config()/Stats() reader    *)
(* that run concurrently, each a sequence of steps.  Add and Remove are    *)
(* part_007 15-34, Config and Stats are part_007 42-64; UpdateService is   *)
(* the specification's in-place update of the backend set, applied with    *)
(* Service.add and Service.remove.                                         *)

(* a mutex that never blocks *)
NoLock(holders) == TRUE

(* sync.Mutex, part_007 10-13: Lock() returns once nobody holds the mutex  *)

LockFree(holders) == holders = {}

(* what a reader of the given kind copies from a service *)
View(kind, s) == IF kind = "Config" THEN ServiceConfigOf(s) ELSE ServiceStatOf(s)

SnapOf(kind, m) == {View(kind, m[n]) : n \in DOMAIN m}

BackendNamesOf(bs) == {bs[i].Name : i \in 1..Len(bs)}

W_Call(op, cfg) ==
    /\ wpc.pc = "idle"
    /\ wpc' = [pc |-> "want", op |-> op, cfg |-> cfg, old |-> <<>>]
    /\ UNCHANGED <<svcs, listeners, last, vhosts, globalCfg, rr, picks, regLock, rpc, commits, sessions, detached>>

(* s.Lock(), part_007 16 and 24 *)
W_Lock ==
    /\ wpc.pc = "want"
    /\ LockFree(regLock)
    /\ regLock' = regLock \cup {"w"}
    /\ wpc' = [wpc EXCEPT !.pc = CASE wpc.op = "Add" -> "store"
                                   [] wpc.op = "Remove" -> "delete"
                                   [] OTHER -> "sync"]
    /\ UNCHANGED <<svcs, listeners, last, vhosts, globalCfg, rr, picks, rpc, commits, sessions, detached>>

(* s.svcs[svc.Name] = svc, part_007 19 *)
W_Store ==
    /\ wpc.pc = "store"
    /\ svcs' = MapPut(svcs, wpc.cfg.Name, NewService(wpc.cfg))
    /\ wpc' = [wpc EXCEPT !.pc = "start"]
    /\ UNCHANGED <<listeners, last, vhosts, globalCfg, rr, picks, regLock, rpc, commits, sessions, detached>>

(* return svc.Start(), part_007 20 *)
W_Start ==
    /\ wpc.pc = "start"
    /\ svcs' = MapPut(svcs, wpc.cfg.Name, ServiceStart(svcs[wpc.cfg.Name], listeners))
    /\ listeners' = ListenersAfterStart(svcs[wpc.cfg.Name], listeners)
    /\ wpc' = [wpc EXCEPT !.pc = "unlock"]
    /\ UNCHANGED <<last, vhosts, globalCfg, rr, picks, regLock, rpc, commits, sessions, detached>>

(* svc, ok := s.svcs[name]; delete(s.svcs, name), part_007 27-29 *)
W_Delete ==
    /\ wpc.pc = "delete"
    /\ LET r == RegistryRemove(svcs, wpc.cfg.Name)
       IN  /\ svcs' = r.svcs
           /\ wpc' = [wpc EXCEPT !.old = r.svc,
                                 !.pc = IF r.svc = <<>> THEN "unlock" ELSE "stop"]
    /\ UNCHANGED <<listeners, last, vhosts, globalCfg, rr, picks, regLock, rpc, commits, sessions, detached>>

(* svc.Stop(), part_007 30 *)
W_Stop ==
    /\ wpc.pc = "stop"
    /\ listeners' = ListenersAfterStop(wpc.old[1], listeners)
    /\ wpc' = [wpc EXCEPT !.pc = "unlock"]
    /\ UNCHANGED <<svcs, last, vhosts, globalCfg, rr, picks, regLock, rpc, commits, sessions, detached>>

(* UpdateService in place: one backend that the new configuration drops is *)
(* removed, or one that it adds is added, per step.                        *)
W_Sync ==
    /\ wpc.pc = "sync"
    /\ IF wpc.cfg.Name \notin Registered
       THEN /\ wpc' = [wpc EXCEPT !.pc = "unlock"]
            /\ UNCHANGED svcs
       ELSE LET s == svcs[wpc.cfg.Name]
                extra == BackendNamesOf(s.Backends) \ BackendNamesOf(wpc.cfg.Backends)
                missing == BackendNamesOf(wpc.cfg.Backends) \ BackendNamesOf(s.Backends)
            IN  IF extra # {}
                THEN /\ \E b \in extra :
                          svcs' = MapPut(svcs, s.Name, ServiceRemove(s, b))
                     /\ UNCHANGED wpc
                ELSE IF missing # {}
                THEN /\ LET i == IndexOf(wpc.cfg.Backends, LAMBDA x : x.Name \in missing)
                        IN  svcs' = MapPut(svcs, s.Name,
                                       ServiceAdd(s, NewBackend(wpc.cfg.Backends[i])))
                     /\ UNCHANGED wpc
                ELSE /\ wpc' = [wpc EXCEPT !.pc = "unlock"]
                     /\ UNCHANGED svcs
    /\ UNCHANGED <<listeners, last, vhosts, globalCfg, rr, picks, regLock, rpc, commits, sessions, detached>>

(* defer s.Unlock(), part_007 17 and 25: the mutation is published *)
W_Unlock ==
    /\ wpc.pc = "unlock"
    /\ regLock' = regLock \ {"w"}
    /\ commits' = [cur |-> svcs,
                   seen |-> IF rpc.pc = "read" THEN commits.seen \cup {svcs}
                            ELSE commits.seen]
    /\ wpc' = [pc |-> "idle"]
    /\ UNCHANGED <<svcs, listeners, last, vhosts, globalCfg, rr, picks, rpc, sessions, detached>>

R_Call(kind) ==
    /\ rpc.pc = "idle"
    /\ rpc' = [pc |-> "want", kind |-> kind, todo |-> {}, got |-> {}, overlap |-> FALSE]
    /\ UNCHANGED <<svcs, listeners, last, vhosts, globalCfg, rr, picks, regLock, wpc, commits, sessions, detached>>

(* s.Lock(), part_007 43 and 55 *)
R_Lock ==
    /\ rpc.pc = "want"
    /\ LockFree(regLock)
    /\ regLock' = regLock \cup {"r"}
    /\ rpc' = [rpc EXCEPT !.pc = "read", !.todo = DOMAIN svcs]
    /\ commits' = [commits EXCEPT !.seen = {commits.cur}]
    /\ UNCHANGED <<svcs, listeners, last, vhosts, globalCfg, rr, picks, wpc, sessions, detached>>

(* for _, service := range s.svcs, part_007 47-49 and 59-61: one service   *)
(* per step, in the order the map yields them.                             *)
R_Read ==
    /\ rpc.pc = "read"
    /\ \E n \in rpc.todo :
          rpc' = [rpc EXCEPT !.todo = rpc.todo \ {n},
                             !.overlap = rpc.overlap \/ wpc.pc # "idle",
                             !.got = IF n \in Registered
                                     THEN rpc.got \cup {View(rpc.kind, svcs[n])}
                                     ELSE rpc.got]
    /\ UNCHANGED <<svcs, listeners, last, vhosts, globalCfg, rr, picks, regLock, wpc, commits, sessions, detached>>

(* return under defer s.Unlock(), part_007 44, 51, 56, 63: the loop has    *)
(* ended and rpc.got is the result.                                        *)
R_Return ==
    /\ rpc.pc = "read"
    /\ rpc.todo = {}
    /\ regLock' = regLock \ {"r"}
    /\ rpc' = [pc |-> "idle"]
    /\ commits' = [commits EXCEPT !.seen = {}]
    /\ UNCHANGED <<svcs, listeners, last, vhosts, globalCfg, rr, picks, wpc, sessions, detached>>

AddrOf(n) == IF n = "s1" THEN "a1" ELSE "a2"

ConcCfg(n, bs) == SvcConfig(n, AddrOf(n), "", bs, <<>>, 0)

(* the requests: add a service with one backend, remove a service, update  *)
(* a service to any of the backend lists                                   *)
ConcCalls ==
    {<<"Add", ConcCfg(n, BackendList(1))>> : n \in Names}
        \cup {<<"Remove", ConcCfg(n, <<>>)>> : n \in Names}
        \cup {<<"Update", ConcCfg(n, bs)>> : n \in Names, bs \in BackendCfgLists}

InitConc ==
    /\ svcs = EmptyMap
    /\ listeners = {}
    /\ last = NoResult
    /\ vhosts = EmptyMap
    /\ globalCfg = NoGlobal
    /\ rr = NoService
    /\ picks = <<>>
    /\ regLock = {}
    /\ wpc = [pc |-> "idle"]
    /\ rpc = [pc |-> "idle"]
    /\ commits = [cur |-> EmptyMap, seen |-> {}]
    /\ sessions = {}
    /\ detached = {}

NextConc ==
    \/ \E c \in ConcCalls : W_Call(c[1], c[2])
    \/ W_Lock
    \/ W_Store
    \/ W_Start
    \/ W_Delete
    \/ W_Stop
    \/ W_Sync
    \/ W_Unlock
    \/ \E kind \in {"Config", "Stats"} : R_Call(kind)
    \/ R_Lock
    \/ R_Read
    \/ R_Return

SpecConc == InitConc /\ [][NextConc]_vars

(* C6: what a Config or Stats reader returns is one complete registry      *)
(* state published by the time it returns: the state before or the state   *)
(* after each mutation that ran while it read, never one in between.       *)
C6_ReadersSeeCommitted ==
    (rpc.pc = "read" /\ rpc.todo = {})
        => rpc.got \in {SnapOf(rpc.kind, m) : m \in commits.seen}

(* a reader about to return services, with a mutating request under way   *)
(* while it read                                                           *)
C6_Witness ==
    /\ rpc.pc = "read" /\ rpc.todo = {}
    /\ rpc.got # {}
    /\ rpc.overlap
    /\ wpc.pc = "want"

----------------------------------------------------------------------------
(* The round-robin balancer, unnamed/part_002 *)

MaxRRBackends == 3

(* Service.roundRobin, part_002 3-23: the service after the call and the   *)
(* name of the backend returned, Nil for none.                             *)
roundRobin(s) ==
    LET count == Len(s.Backends)
        lastCount == s.lastCount + 1
    IN  IF count = 0 THEN [s |-> s, b |-> Nil]
        ELSE IF lastCount <= s.Backends[s.lastBackend + 1].Weight
        THEN [s |-> [s EXCEPT !.lastCount = lastCount],
              b |-> s.Backends[s.lastBackend + 1].Name]
        ELSE LET lastBackend == (s.lastBackend + 1) % count
             IN  [s |-> [s EXCEPT !.lastBackend = lastBackend, !.lastCount = 0],
                  b |-> s.Backends[lastBackend + 1].Name]

(* s.next() in Service.run, part_004 255 *)
Select ==
    /\ Len(picks) < MaxPicks
    /\ rr.next = "roundRobin"
    /\ LET r == roundRobin(rr)
       IN  /\ rr' = r.s
           /\ picks' = Append(picks, r.b)
    /\ UNCHANGED <<svcs, listeners, last, vhosts, globalCfg, regLock, wpc, rpc, commits, sessions, detached>>

WeightLists ==
    UNION {[1..n -> 1..MaxWeight] : n \in 1..MaxRRBackends}

RRConfig(ws) ==
    SvcConfig("rr", "a1", "RR",
              [i \in 1..Len(ws) |-> BackendConfig(BName[i], ws[i])], <<>>, 0)

InitRR ==
    /\ svcs = EmptyMap
    /\ listeners = {}
    /\ last = NoResult
    /\ vhosts = EmptyMap
    /\ globalCfg = NoGlobal
    /\ rr \in {NewService(RRConfig(ws)) : ws \in WeightLists}
    /\ picks = <<>>
    /\ regLock = {}
    /\ wpc = [pc |-> "idle"]
    /\ rpc = [pc |-> "idle"]
    /\ commits = {}
    /\ sessions = {}
    /\ detached = {}

NextRR == Select

SpecRR == InitRR /\ [][NextRR]_vars

RECURSIVE SumWeights(_)
SumWeights(bs) == IF bs = <<>> THEN 0 ELSE Head(bs).Weight + SumWeights(Tail(bs))

CountIn(seq, from, to, name) ==
    Cardinality({j \in from..to : seq[j] = name})

(* C10: in every window of w1+...+wn consecutive selections backend i is   *)
(* selected exactly wi times.                                              *)
C10_WindowCounts ==
    LET total == SumWeights(rr.Backends)
    IN  \A from \in 1..(Len(picks) - total + 1) :
            \A i \in 1..Len(rr.Backends) :
                CountIn(picks, from, from + total - 1, rr.Backends[i].Name)
                    = rr.Backends[i].Weight

(* the backend the specified order puts at position k (from 1): each       *)
(* backend of the list weight times in a row, wrapping after the last      *)
RECURSIVE Unrolled(_)
Unrolled(bs) ==
    IF bs = <<>> THEN <<>>
    ELSE [i \in 1..Head(bs).Weight |-> Head(bs).Name] \o Unrolled(Tail(bs))

ExpectedPick(bs, k) ==
    LET cycle == Unrolled(bs)
    IN  cycle[((k - 1) % Len(cycle)) + 1]

(* C11: the selections of a new round-robin service follow the list order, *)
(* each backend exactly weight times in a row, wrapping after the last.    *)
C11_WeightedOrder ==
    \A k \in 1..Len(picks) : picks[k] = ExpectedPick(rr.Backends, k)

----------------------------------------------------------------------------
(* The balancers under load: selections, proxy sessions that come and go,  *)
(* health checks that flip the up flag, and backends added while running.  *)

MaxConns == 1

(* least := int64(65536), part_002 35 *)
LeastStart == 65536

(* Service.leastConn, part_002 25-47: the scan from position i with the    *)
(* least count and the choice so far; idx is the 1-based position of the   *)
(* chosen backend, 0 for nil.                                              *)
RECURSIVE LeastScan(_, _, _, _)
LeastScan(bs, i, least, idx) ==
    IF i > Len(bs) THEN idx
    ELSE IF bs[i].Active <= least
         THEN LeastScan(bs, i + 1, bs[i].Active, i)
         ELSE LeastScan(bs, i + 1, least, idx)

leastConn(s) ==
    LET idx == LeastScan(s.Backends, 1, LeastStart, 0)
    IN  IF Len(s.Backends) = 0 THEN [s |-> s, b |-> Nil, idx |-> 0]
        ELSE IF idx = 0 THEN [s |-> s, b |-> Nil, idx |-> 0]
        ELSE [s |-> [s EXCEPT !.lastBackend = idx - 1],
              b |-> s.Backends[idx].Name, idx |-> idx]

(* a balancer that passes over a backend marked down *)
NextBackend_up(s) ==
    LET r == IF s.next = "leastConn" THEN leastConn(s)
             ELSE LET q == roundRobin(s)
                  IN  [s |-> q.s, b |-> q.b,
                       idx |-> IF q.b = Nil THEN 0 ELSE q.s.lastBackend + 1]
    IN  IF r.idx # 0 /\ ~s.Backends[r.idx].up
        THEN [s |-> r.s, b |-> Nil, idx |-> 0]
        ELSE r

(* s.next(), part_004 255: the balancer NewService chose *)
NextBackend(s) ==
    IF s.next = "leastConn" THEN leastConn(s)
    ELSE LET r == roundRobin(s)
         IN  [s |-> r.s, b |-> r.b,
              idx |-> IF r.b = Nil THEN 0 ELSE r.s.lastBackend + 1]

(* the connections a backend carries above the level it started the run at *)
Above(b) == IF b.Active >= LeastStart THEN b.Active - LeastStart ELSE b.Active

BalResult(op, r, conn) ==
    [op |-> op, b |-> r.b, idx |-> r.idx, conn |-> conn]

(* One turn of the accept loop, Service.run, part_004 245-264, with        *)
(* Backend.Proxy, proxy.go 102-133: the connection is closed when next()   *)
(* returns nil or the dial fails, and relayed otherwise.                   *)
Dispatch(dialOk) ==
    LET r == NextBackend(rr)
    IN  /\ r.idx # 0 /\ dialOk => Above(rr.Backends[r.idx]) < MaxConns
        /\ rr' = IF r.idx # 0 /\ dialOk
                 THEN [r.s EXCEPT !.Backends[r.idx].Active = @ + 1]
                 ELSE r.s
        /\ last' = BalResult("dispatch", r,
                             IF r.idx = 0 THEN "closed: no backend"
                             ELSE IF dialOk THEN "relaying"
                             ELSE "closed: dial failed")
        /\ UNCHANGED <<svcs, listeners, vhosts, globalCfg, picks, regLock, wpc, rpc, commits, sessions, detached>>

(* defer atomic.AddInt64(active, -1), proxy.go 132: a session ends *)
ProxyReturn(i) ==
    /\ i \in 1..Len(rr.Backends)
    /\ Above(rr.Backends[i]) > 0
    /\ rr' = [rr EXCEPT !.Backends[i].Active = @ - 1]
    /\ last' = [op |-> "return", b |-> rr.Backends[i].Name, idx |-> i, conn |-> "closed"]
    /\ UNCHANGED <<svcs, listeners, vhosts, globalCfg, picks, regLock, wpc, rpc, commits, sessions, detached>>

(* Backend.check, server_test.go 180-207, seen from the balancer: a health *)
(* check marks the backend up or down.                                     *)
MarkUp(i, v) ==
    /\ i \in 1..Len(rr.Backends)
    /\ rr.Backends[i].up # v
    /\ rr' = [rr EXCEPT !.Backends[i].up = v]
    /\ UNCHANGED <<last, svcs, listeners, vhosts, globalCfg, picks, regLock, wpc, rpc, commits, sessions, detached>>

(* Service.add of a backend with a new name, part_004 182-204 *)
BalAdd ==
    /\ Len(rr.Backends) < MaxRRBackends
    /\ rr' = ServiceAdd(rr, NewBackend(BackendConfig(BName[Len(rr.Backends) + 1], 1)))
    /\ last' = [op |-> "add", b |-> BName[Len(rr.Backends) + 1],
                idx |-> Len(rr.Backends) + 1, conn |-> ""]
    /\ UNCHANGED <<svcs, listeners, vhosts, globalCfg, picks, regLock, wpc, rpc, commits, sessions, detached>>

BalConfig(bal, n) ==
    SvcConfig("rr", "a1", bal, BackendList(n), <<>>, 0)

(* the service with every backend already carrying the given load *)
WithLoad(s, load) ==
    [s EXCEPT !.Backends = [i \in 1..Len(s.Backends) |->
                               [s.Backends[i] EXCEPT !.Active = load[i]]]]

InitBal ==
    /\ svcs = EmptyMap
    /\ listeners = {}
    /\ last = [op |-> "init", b |-> Nil, idx |-> 0, conn |-> ""]
    /\ vhosts = EmptyMap
    /\ globalCfg = NoGlobal
    /\ \E bal \in {"RR", "LC"}, n \in 0..MaxRRBackends :
          \E load \in [1..n -> {0, LeastStart}] :
              rr = WithLoad(NewService(BalConfig(bal, n)), load)
    /\ picks = <<>>
    /\ regLock = {}
    /\ wpc = [pc |-> "idle"]
    /\ rpc = [pc |-> "idle"]
    /\ commits = {}
    /\ sessions = {}
    /\ detached = {}

NextBal ==
    \/ \E dialOk \in BOOLEAN : Dispatch(dialOk)
    \/ \E i \in 1..MaxRRBackends : ProxyReturn(i)
    \/ \E i \in 1..MaxRRBackends, v \in BOOLEAN : MarkUp(i, v)
    \/ BalAdd

SpecBal == InitBal /\ [][NextBal]_vars

(* C12: leastConn on a non-empty list returns a backend whose active count *)
(* is at most that of every other backend at the moment of selection.      *)
(* (A dispatch adds the new session to the backend it chose.)              *)
C12_LeastConnMinimum ==
    (last.op = "dispatch" /\ rr.next = "leastConn" /\ Len(rr.Backends) > 0)
        => /\ last.idx # 0
           /\ \A j \in 1..Len(rr.Backends) :
                 j # last.idx =>
                    rr.Backends[last.idx].Active
                        - (IF last.conn = "relaying" THEN 1 ELSE 0)
                    <= rr.Backends[j].Active

(* the active count backend j had when the last dispatch made its selection *)
ActiveAtSelection(j) ==
    rr.Backends[j].Active
        - (IF j = last.idx /\ last.conn = "relaying" THEN 1 ELSE 0)

(* C13: among the backends that share the minimum active count leastConn   *)
(* returns the one latest in the list and sets lastBackend to its index.   *)
C13_LatestOnTie ==
    (last.op = "dispatch" /\ rr.next = "leastConn" /\ Len(rr.Backends) > 0)
        => LET idxs   == 1..Len(rr.Backends)
               least  == CHOOSE j \in idxs :
                             \A k \in idxs : ActiveAtSelection(j) <= ActiveAtSelection(k)
               latest == CHOOSE j \in idxs :
                             /\ ActiveAtSelection(j) = ActiveAtSelection(least)
                             /\ \A k \in idxs :
                                   ActiveAtSelection(k) = ActiveAtSelection(least) => k <= j
           IN  /\ last.idx = latest
               /\ rr.lastBackend = latest - 1

(* the service with the up flags of its backends replaced *)
WithUp(s, flags) ==
    [s EXCEPT !.Backends = [i \in 1..Len(s.Backends) |->
                               [s.Backends[i] EXCEPT !.up = flags[i]]]]

----------------------------------------------------------------------------
(* Health checks: Backend.check and Backend.healthCheck, server_test.go    *)
(* 180-220, on the backends Service.add (part_004 182-204) installed.      *)

MaxRise == 2
MaxChecks == 3

(* a check that dials even when the check address is empty *)
check_always(b, ok) ==
    IF ok
    THEN [b EXCEPT !.fallCount = 0,
                   !.riseCount = b.riseCount + 1,
                   !.up = IF b.riseCount + 1 >= b.rise THEN TRUE ELSE @]
    ELSE [b EXCEPT !.riseCount = 0,
                   !.fallCount = b.fallCount + 1,
                   !.up = IF b.fallCount + 1 >= b.fall THEN FALSE ELSE @]

(* Backend.check, server_test.go 180-207; ok is the outcome of the dial *)
check(b, ok) ==
    IF b.Check = "" THEN b
    ELSE IF ok
    THEN [b EXCEPT !.fallCount = 0,
                   !.riseCount = b.riseCount + 1,
                   !.up = IF b.riseCount + 1 >= b.rise THEN TRUE ELSE @]
    ELSE [b EXCEPT !.riseCount = 0,
                   !.fallCount = b.fallCount + 1,
                   !.up = IF b.fallCount + 1 >= b.fall THEN FALSE ELSE @]

CheckedBackend(name, chk) ==
    [BackendConfig(name, 1) EXCEPT !.Check = IF chk THEN name ELSE ""]

OpOf(r) == [op |-> r.op, idx |-> r.idx, hadCheck |-> r.hadCheck]

(* One turn of the healthCheck loop of backend i: the interval elapsed and *)
(* check() ran, server_test.go 216-217.                                    *)
HealthCheck(i, ok) ==
    /\ i \in 1..Len(rr.Backends)
    /\ rr.Backends[i].riseCount < MaxChecks
    /\ rr.Backends[i].fallCount < MaxChecks
    /\ LET b == check(rr.Backends[i], ok)
       IN  /\ rr' = [rr EXCEPT !.Backends[i] = b]
           /\ last' = [op |-> "check", idx |-> i, ok |-> ok,
                       hadCheck |-> rr.Backends[i].Check # "",
                       flipped |-> b.up # rr.Backends[i].up,
                       prev |-> OpOf(last)]
    /\ UNCHANGED <<svcs, listeners, vhosts, globalCfg, picks, regLock, wpc, rpc, commits, sessions, detached>>

(* Service.add of a backend whose name is already in the list, part_004    *)
(* 192-198: the old backend's check loop is stopped, the new one started.  *)
ReplaceBackend(i, chk) ==
    /\ i \in 1..Len(rr.Backends)
    /\ rr' = ServiceAdd(rr, NewBackend(CheckedBackend(rr.Backends[i].Name, chk)))
    /\ last' = [op |-> "add", idx |-> i, ok |-> TRUE,
                hadCheck |-> rr.Backends[i].Check # "",
                flipped |-> FALSE,
                prev |-> OpOf(last)]
    /\ UNCHANGED <<svcs, listeners, vhosts, globalCfg, picks, regLock, wpc, rpc, commits, sessions, detached>>

CheckConfig(r, f, chks) ==
    [SvcConfig("rr", "a1", "RR",
               [i \in 1..Len(chks) |-> CheckedBackend(BName[i], chks[i])],
               <<>>, 0)
        EXCEPT !.Rise = r, !.Fall = f]

InitCheck ==
    /\ svcs = EmptyMap
    /\ listeners = {}
    /\ last = [op |-> "init", idx |-> 0, ok |-> TRUE, hadCheck |-> FALSE,
               flipped |-> FALSE,
               prev |-> [op |-> "init", idx |-> 0, hadCheck |-> FALSE]]
    /\ vhosts = EmptyMap
    /\ globalCfg = NoGlobal
    /\ \E r \in 0..MaxRise, f \in 0..MaxRise, n \in 1..MaxBackends :
          \E chks \in [1..n -> BOOLEAN] :
              rr = NewService(CheckConfig(r, f, chks))
    /\ picks = <<>>
    /\ regLock = {}
    /\ wpc = [pc |-> "idle"]
    /\ rpc = [pc |-> "idle"]
    /\ commits = {}
    /\ sessions = {}
    /\ detached = {}

NextCheck ==
    \/ \E i \in 1..MaxBackends, ok \in BOOLEAN : HealthCheck(i, ok)
    \/ \E i \in 1..MaxBackends, chk \in BOOLEAN : ReplaceBackend(i, chk)

SpecCheck == InitCheck /\ [][NextCheck]_vars

(* C15: with rise = R and fall = F a check turns up from false to true     *)
(* only as the R-th (or later) consecutive success and from true to false  *)
(* only as the F-th (or later) consecutive failure.                        *)
C15_RiseFallThresholds ==
    (last.op = "check" /\ last.flipped)
        => LET b == rr.Backends[last.idx]
           IN  IF b.up THEN b.riseCount >= rr.Rise
                       ELSE b.fallCount >= rr.Fall

----------------------------------------------------------------------------
(* Proxy sessions, Backend.Proxy, proxy.go 102-162, while the service and  *)
(* its backends are removed and replaced.                                  *)

MaxSessions == 2
UpAddrs == {"u1"}

(* Service.stop, part_004 270-287, and Backend.Stop, server_test.go        *)
(* 176-178: they close the listener and the check loops; the connections   *)
(* live in the goroutines of Backend.Proxy, which neither reaches.         *)
SessionsAfterStop(s, ss) == ss

(* The Backend object named name left the service's list: the sessions     *)
(* started on it keep their pointers to its counters, proxy.go 110-114.    *)
Detach(ss, name) ==
    {[x EXCEPT !.listed = IF x.b = name THEN FALSE ELSE @] : x \in ss}

(* Backend.Proxy up to the brokers, proxy.go 106-140 *)
NewSession(id, b) ==
    [id |-> id, b |-> b.Name, addr |-> b.Addr, rwTimeout |-> b.rwTimeout,
     listed |-> TRUE, state |-> "relaying", by |-> ""]

SessResult(op, b, idx, conn) == [op |-> op, b |-> b, idx |-> idx, conn |-> conn]

(* roundRobin indexes s.Backends[s.lastBackend] before it wraps            *)
(* lastBackend, part_002 16; Service.remove, part_004 207-222, shortens    *)
(* the list without touching lastBackend.  The index is then out of range  *)
(* and the accept goroutine panics, which ends the process.                *)
Panics(s) ==
    /\ s.next = "roundRobin"
    /\ Len(s.Backends) > 0
    /\ s.lastBackend >= Len(s.Backends)

(* the process exits: every socket it holds is closed *)
SessionsAfterExit(ss) ==
    {[x EXCEPT !.state = "closed",
               !.by = IF x.state = "relaying" THEN "panic" ELSE @] : x \in ss}

(* Service.run, part_004 245-264: a connection is accepted and dispatched *)
SessAccept(dialOk) ==
    /\ rr.listener = "open"
    /\ Cardinality(sessions) < MaxSessions
    /\ IF Panics(rr)
       THEN /\ rr' = [rr EXCEPT !.listener = Nil]
            /\ listeners' = {}
            /\ sessions' = SessionsAfterExit(sessions)
            /\ last' = SessResult("panic", Nil, 0, "closed")
       ELSE LET r  == NextBackend(rr)
                id == Cardinality(sessions) + 1
            IN  /\ IF r.idx # 0 /\ dialOk
                   THEN /\ rr' = [r.s EXCEPT !.Backends[r.idx].Active = @ + 1]
                        /\ sessions' = sessions \cup {NewSession(id, rr.Backends[r.idx])}
                        /\ last' = SessResult("dispatch", r.b, r.idx, "relaying")
                   ELSE /\ rr' = r.s
                        /\ UNCHANGED sessions
                        /\ last' = SessResult("dispatch", r.b, r.idx, "closed")
                /\ UNCHANGED listeners
    /\ UNCHANGED <<svcs, vhosts, globalCfg, picks, regLock, wpc, rpc, commits, detached>>

(* proxy.go 146-161 and the deadline of timeoutConn: a session ends when   *)
(* the client or the server closes or a read or write times out.           *)
SessEnd(id, by) ==
    \E x \in sessions :
        /\ x.id = id
        /\ x.state = "relaying"
        /\ sessions' = (sessions \ {x}) \cup {[x EXCEPT !.state = "closed", !.by = by]}
        /\ rr' = IF x.listed
                 THEN [rr EXCEPT !.Backends =
                          [i \in 1..Len(rr.Backends) |->
                              IF rr.Backends[i].Name = x.b
                              THEN [rr.Backends[i] EXCEPT !.Active = @ - 1]
                              ELSE rr.Backends[i]]]
                 ELSE rr
        /\ last' = SessResult("end", x.b, 0, by)
        /\ UNCHANGED <<svcs, listeners, vhosts, globalCfg, picks, regLock, wpc, rpc, commits, detached>>

(* Service.add with a new address for the name, part_004 182-204 *)
SessReplaceBackend(name, addr) ==
    /\ rr.listener = "open"
    /\ rr' = ServiceAdd(rr, NewBackend([BackendConfig(name, 1) EXCEPT !.Addr = addr]))
    /\ sessions' = Detach(sessions, name)
    /\ last' = SessResult("add", name, 0, "")
    /\ UNCHANGED <<svcs, listeners, vhosts, globalCfg, picks, regLock, wpc, rpc, commits, detached>>

(* Service.remove, part_004 207-222 *)
SessRemoveBackend(name) ==
    /\ rr.listener = "open"
    /\ \E i \in 1..Len(rr.Backends) : rr.Backends[i].Name = name
    /\ rr' = ServiceRemove(rr, name)
    /\ sessions' = Detach(sessions, name)
    /\ last' = SessResult("remove", name, 0, "")
    /\ UNCHANGED <<svcs, listeners, vhosts, globalCfg, picks, regLock, wpc, rpc, commits, detached>>

(* ServiceRegistry.Remove, part_007: the service is stopped *)
SessStopService ==
    /\ rr.listener = "open"
    /\ listeners' = ListenersAfterStop(rr, listeners)
    /\ sessions' = SessionsAfterStop(rr, sessions)
    /\ rr' = [rr EXCEPT !.listener = Nil]
    /\ last' = SessResult("stop", Nil, 0, "")
    /\ UNCHANGED <<svcs, vhosts, globalCfg, picks, regLock, wpc, rpc, commits, detached>>

(* ServiceRegistry.Add of a new service of the same name after the stop:   *)
(* its backends are new objects.                                           *)
SessStartService(cfg) ==
    /\ rr.listener = Nil
    /\ LET s == NewService(cfg)
       IN  /\ rr' = ServiceStart(s, listeners)
           /\ listeners' = ListenersAfterStart(s, listeners)
    /\ sessions' = {[x EXCEPT !.listed = FALSE] : x \in sessions}
    /\ last' = SessResult("start", Nil, 0, "")
    /\ UNCHANGED <<svcs, vhosts, globalCfg, picks, regLock, wpc, rpc, commits, detached>>

SessConfig(n, timeout) ==
    SvcConfig("rr", "a1", "RR", BackendList(n), <<>>, timeout)

SessConfigs == {SessConfig(n, t) : n \in 1..MaxBackends, t \in {0, MaxTimeout}}

InitSess ==
    /\ svcs = EmptyMap
    /\ last = SessResult("init", Nil, 0, "")
    /\ vhosts = EmptyMap
    /\ globalCfg = NoGlobal
    /\ \E cfg \in SessConfigs :
          /\ rr = ServiceStart(NewService(cfg), {})
          /\ listeners = ListenersAfterStart(NewService(cfg), {})
    /\ picks = <<>>
    /\ regLock = {}
    /\ wpc = [pc |-> "idle"]
    /\ rpc = [pc |-> "idle"]
    /\ commits = {}
    /\ sessions = {}
    /\ detached = {}

NextSess ==
    \/ \E dialOk \in BOOLEAN : SessAccept(dialOk)
    \/ \E id \in 1..MaxSessions, by \in {"client", "server", "timeout"} : SessEnd(id, by)
    \/ \E i \in 1..MaxBackends, a \in UpAddrs : SessReplaceBackend(BName[i], a)
    \/ \E i \in 1..MaxBackends : SessRemoveBackend(BName[i])
    \/ SessStopService
    \/ \E cfg \in SessConfigs : SessStartService(cfg)

SpecSess == InitSess /\ [][NextSess]_vars

(* C17: no step closes or alters a relaying session except its own end by  *)
(* the client, the server or a timeout, and a newly dispatched session     *)
(* dials the address and takes the timeout its backend has at that moment. *)
C17_SessionsSurvive ==
    [][/\ \A x \in sessions :
             x.state = "relaying"
                => \E y \in sessions' :
                      /\ y.id = x.id
                      /\ y.addr = x.addr
                      /\ y.rwTimeout = x.rwTimeout
                      /\ y.state = "relaying" \/ y.by \in {"client", "server", "timeout"}
       /\ \A y \in sessions' \ sessions :
             y.state = "relaying"
                => \E i \in 1..Len(rr.Backends) :
                      /\ rr.Backends[i].Name = y.b
                      /\ y.addr = rr.Backends[i].Addr
                      /\ y.rwTimeout = rr.Backends[i].rwTimeout]_vars

(* C23: a dispatch that ends in a failed dial or finds no backend closes    *)
(* only the connection it accepted and leaves the accept loop running; the *)
(* loop ends only when the service is stopped and its listener closed.     *)
C23_AcceptLoopGoesOn ==
    [][/\ (last'.op = "dispatch" /\ last'.conn = "closed")
             => (sessions' = sessions /\ rr'.listener = "open")
       /\ (rr.listener = "open" /\ rr'.listener = Nil) => last'.op = "stop"]_vars

----------------------------------------------------------------------------
(* Startup: loadConfig, config.go 10-36 *)

MaxFileSvcs == 2

(* What a config path leads to: no path given, a file that cannot be read, *)
(* a file that is not a JSON list of services, or a list of services.      *)
NoPath == [kind |-> "none", svcs |-> <<>>]
Unreadable == [kind |-> "unreadable", svcs |-> <<>>]
BadJSON == [kind |-> "badjson", svcs |-> <<>>]

FileCfgs == {SvcConfig(n, a, "", <<>>, <<>>, 0) : n \in Names, a \in Addrs}

ConfigFiles ==
    {NoPath, Unreadable, BadJSON}
        \cup {[kind |-> "ok", svcs |-> l] :
                 l \in UNION {[1..k -> FileCfgs] : k \in 0..MaxFileSvcs}}

(* the file loads: config.go 12-27 reach the loop over its services *)
Loads(f) == f.kind = "ok"

(* config.go 11-27: the next path of []string{stateConfig, defaultConfig}  *)
(* is read and parsed; a path that is empty or fails is passed over.       *)
LoadFile ==
    /\ wpc.pc = "file"
    /\ wpc' = LET f == wpc.files[wpc.i]
              IN  IF Loads(f)
                  THEN [wpc EXCEPT !.pc = "services", !.todo = f.svcs]
                  ELSE IF wpc.i < Len(wpc.files)
                  THEN [wpc EXCEPT !.i = @ + 1]
                  ELSE [wpc EXCEPT !.pc = "done"]
    /\ UNCHANGED <<svcs, listeners, last, vhosts, globalCfg, rr, picks, regLock, rpc, commits, sessions, detached>>

(* config.go 29-34: the next service of the file is created and started;   *)
(* an error of Start is logged.  After the last one the loop over the      *)
(* paths goes on.                                                          *)
StartFromFile ==
    /\ wpc.pc = "services"
    /\ IF wpc.todo = <<>>
       THEN /\ wpc' = IF wpc.i < Len(wpc.files)
                      THEN [wpc EXCEPT !.pc = "file", !.i = @ + 1]
                      ELSE [wpc EXCEPT !.pc = "done"]
            /\ UNCHANGED <<svcs, listeners, last>>
       ELSE LET svc == NewService_v0(Head(wpc.todo))
                e   == StartError_v0(svc, listeners)
            IN  /\ IF e = ""
                   THEN /\ svcs' = MapPut(svcs, svc.Name, Started_v0(svc))
                        /\ listeners' = listeners \cup
                                          {[addr |-> svc.Addr, owner |-> svc.Name]}
                   ELSE UNCHANGED <<svcs, listeners>>
                /\ last' = Result("load", svc.Name, e, 0, svc.Name \in Registered, FALSE)
                /\ wpc' = [wpc EXCEPT !.todo = Tail(@),
                                      !.started = @ \cup {[file |-> wpc.i, name |-> svc.Name]}]
    /\ UNCHANGED <<vhosts, globalCfg, rr, picks, regLock, rpc, commits, sessions, detached>>

InitLoad ==
    /\ svcs = EmptyMap
    /\ listeners = {}
    /\ last = NoResult
    /\ vhosts = EmptyMap
    /\ globalCfg = NoGlobal
    /\ rr = NoService
    /\ picks = <<>>
    /\ regLock = {}
    /\ \E stateConfig \in ConfigFiles, defaultConfig \in ConfigFiles :
          wpc = [pc |-> "file", files |-> <<stateConfig, defaultConfig>>, i |-> 1,
                 todo |-> <<>>, started |-> {}]
    /\ rpc = [pc |-> "idle"]
    /\ commits = {}
    /\ sessions = {}
    /\ detached = {}

NextLoad == LoadFile \/ StartFromFile

SpecLoad == InitLoad /\ [][NextLoad]_vars

(* C20: the default config file is loaded only when the state config file  *)
(* is absent or cannot be loaded: when the state file loads, no service of *)
(* the default file is started.                                            *)
C20_DefaultOnlyWithoutState ==
    Loads(wpc.files[1]) => \A e \in wpc.started : e.file = 1

----------------------------------------------------------------------------
(* The HostRouter of the specification: maintenance mode and error pages.  *)
(* The router is not among the sources; admin_test.go 736-786 exercises it *)
(* through Registry.AddService and Registry.UpdateService.                 *)

MaxReqs == 3
StatusServiceUnavailable == 503

UpstreamStatus == {StatusOK, StatusInternalServerError, StatusServiceUnavailable}

(* the error-page step: a status with a registered page gets the cached    *)
(* body, or an empty body when the fetch of the page had failed            *)
ErrorPage(s, resp) ==
    IF resp.status \in s.ErrorPages
    THEN [resp EXCEPT !.body = IF s.cached THEN "page" ELSE ""]
    ELSE resp

(* a router that proxies without looking at the maintenance mode *)
ServeHTTP_proxy(s, bound, upstream) ==
    IF ~bound
    THEN [status |-> StatusNotFound, body |-> "", proxied |-> FALSE]
    ELSE ErrorPage(s, [status |-> upstream, body |-> "upstream", proxied |-> TRUE])

(* request handling: vhost lookup, maintenance mode, reverse proxy, error  *)
(* page; upstream is the status the backend would answer with              *)
ServeHTTP(s, bound, upstream) ==
    IF ~bound
    THEN [status |-> StatusNotFound, body |-> "", proxied |-> FALSE]
    ELSE IF s.MaintenanceMode
    THEN ErrorPage(s, [status |-> StatusServiceUnavailable, body |-> "",
                       proxied |-> FALSE])
    ELSE ErrorPage(s, [status |-> upstream, body |-> "upstream", proxied |-> TRUE])

HTTPService(hosts, mode, pages, fetched) ==
    [Name |-> "s1", VirtualHosts |-> hosts, MaintenanceMode |-> mode,
     ErrorPages |-> pages, cached |-> pages # {} /\ fetched]

VHostsOf(s) == [h \in s.VirtualHosts |-> <<s.Name>>]

(* a request for host arrives at the router *)
HTTPRequest(host, upstream) ==
    LET bound == host \in DOMAIN vhosts
        resp  == ServeHTTP(rr, bound, upstream)
    IN  /\ Len(picks) < MaxReqs
        /\ last' = [op |-> "request", host |-> host, bound |-> bound,
                    upstream |-> upstream,
                    maint |-> rr.MaintenanceMode,
                    page |-> StatusServiceUnavailable \in rr.ErrorPages /\ rr.cached,
                    resp |-> resp]
        /\ picks' = Append(picks, resp.status)
        /\ UNCHANGED <<svcs, listeners, vhosts, globalCfg, rr, regLock, wpc, rpc, commits, sessions, detached>>

(* Registry.UpdateService: the mode, the virtual hosts and the error pages *)
(* are replaced and the error-page cache is fetched again                  *)
MaintUpdate(hosts, mode, pages, fetched) ==
    /\ rr' = HTTPService(hosts, mode, pages, fetched)
    /\ rr' # rr
    /\ vhosts' = VHostsOf(rr')
    /\ UNCHANGED <<svcs, listeners, last, globalCfg, picks, regLock, wpc, rpc, commits, sessions, detached>>

PageSets == {{}, {StatusServiceUnavailable}}

InitMaint ==
    /\ svcs = EmptyMap
    /\ listeners = {}
    /\ last = [op |-> "init"]
    /\ globalCfg = NoGlobal
    /\ \E hosts \in (SUBSET Hosts) \ {{}}, mode \in BOOLEAN, pages \in PageSets,
          fetched \in BOOLEAN :
          /\ rr = HTTPService(hosts, mode, pages, fetched)
          /\ vhosts = VHostsOf(rr)
    /\ picks = <<>>
    /\ regLock = {}
    /\ wpc = [pc |-> "idle"]
    /\ rpc = [pc |-> "idle"]
    /\ commits = {}
    /\ sessions = {}
    /\ detached = {}

NextMaint ==
    \/ \E host \in Hosts, upstream \in UpstreamStatus : HTTPRequest(host, upstream)
    \/ \E hosts \in (SUBSET Hosts) \ {{}}, mode \in BOOLEAN, pages \in PageSets,
          fetched \in BOOLEAN : MaintUpdate(hosts, mode, pages, fetched)

SpecMaint == InitMaint /\ [][NextMaint]_vars

----------------------------------------------------------------------------
(* Backend.Proxy and its two brokers, step by step: proxy.go 88-162.       *)

MaxCalls == 3

(* the counters of the Backend struct that Proxy updates, server_test.go   *)
(* 76-80, next to the fields NewBackend keeps                              *)
WithCounters(s) ==
    [s EXCEPT !.Backends = [i \in 1..Len(s.Backends) |->
                               s.Backends[i] @@ [Conns |-> 0, Errors |-> 0]]]

(* a Proxy that gives up the session without the deferred decrement *)
AfterReturn_keep(b) == b

(* defer atomic.AddInt64(active, -1), proxy.go 133 *)
AfterReturn(b) == [b EXCEPT !.Active = @ - 1]

(* a Proxy that returns on the first close event *)
BothClosed_first(x) == x.clientClosed \/ x.backendClosed

(* proxy.go 146-161: one close event was received by the select, the other *)
(* by <-waitFor                                                            *)
BothClosed(x) == x.clientClosed /\ x.backendClosed

(* go backend.Proxy(conn), part_004 263: Proxy is entered with the         *)
(* accepted client connection, proxy.go 102-115                            *)
ProxyEnter ==
    /\ Cardinality(sessions) < MaxCalls
    /\ sessions' = sessions \cup
          {[id |-> Cardinality(sessions) + 1, pc |-> "dial",
            conn |-> "open", bConn |-> "none",
            up |-> "none", down |-> "none",
            clientClosed |-> FALSE, backendClosed |-> FALSE, waitFor |-> ""]}
    /\ UNCHANGED <<svcs, listeners, last, vhosts, globalCfg, rr, picks, regLock, wpc, rpc, commits, detached>>

(* proxy.go 117-140: the dial fails, the client connection is closed and   *)
(* the error counted; or it succeeds, conns and active are incremented and *)
(* the two brokers are started                                             *)
ProxyDial(id, ok) ==
    \E x \in sessions :
        /\ x.id = id
        /\ x.pc = "dial"
        /\ IF ok
           THEN /\ sessions' = (sessions \ {x}) \cup
                      {[x EXCEPT !.pc = "select", !.bConn = "open",
                                 !.up = "copying", !.down = "copying"]}
                /\ rr' = [rr EXCEPT !.Backends[1].Conns = @ + 1,
                                    !.Backends[1].Active = @ + 1]
           ELSE /\ sessions' = (sessions \ {x}) \cup
                      {[x EXCEPT !.pc = "returned", !.conn = "closed"]}
                /\ rr' = [rr EXCEPT !.Backends[1].Errors = @ + 1]
        /\ UNCHANGED <<svcs, listeners, last, vhosts, globalCfg, picks, regLock, wpc, rpc, commits, detached>>

(* broker(bConn, conn, clientClosed, ...), proxy.go 88-100: the copy from  *)
(* the client ends (EOF, timeout or error), the client connection is       *)
(* closed and the event sent                                               *)
BrokerUp(id, copyErr) ==
    \E x \in sessions :
        /\ x.id = id
        /\ x.up = "copying"
        /\ sessions' = (sessions \ {x}) \cup
              {[x EXCEPT !.up = "done", !.conn = "closed", !.clientClosed = TRUE]}
        /\ rr' = IF copyErr THEN [rr EXCEPT !.Backends[1].Errors = @ + 1] ELSE rr
        /\ UNCHANGED <<svcs, listeners, last, vhosts, globalCfg, picks, regLock, wpc, rpc, commits, detached>>

(* broker(conn, bConn, backendClosed, ...): the copy from the upstream     *)
(* ends, the upstream connection is closed and the event sent              *)
BrokerDown(id, copyErr) ==
    \E x \in sessions :
        /\ x.id = id
        /\ x.down = "copying"
        /\ sessions' = (sessions \ {x}) \cup
              {[x EXCEPT !.down = "done", !.bConn = "closed", !.backendClosed = TRUE]}
        /\ rr' = IF copyErr THEN [rr EXCEPT !.Backends[1].Errors = @ + 1] ELSE rr
        /\ UNCHANGED <<svcs, listeners, last, vhosts, globalCfg, picks, regLock, wpc, rpc, commits, detached>>

(* proxy.go 146-159: the select receives one close event; in both branches *)
(* CloseRead is called on the upstream connection, which fails when the    *)
(* broker has closed it already                                            *)
ProxySelect(id, first) ==
    \E x \in sessions :
        /\ x.id = id
        /\ x.pc = "select"
        /\ IF first = "client" THEN x.clientClosed ELSE x.backendClosed
        /\ sessions' = (sessions \ {x}) \cup
              {[x EXCEPT !.pc = "wait",
                         !.waitFor = IF first = "client" THEN "backend" ELSE "client",
                         !.bConn = IF @ = "open" THEN "readclosed" ELSE @]}
        /\ rr' = IF x.bConn = "closed"
                 THEN [rr EXCEPT !.Backends[1].Errors = @ + 1] ELSE rr
        /\ UNCHANGED <<svcs, listeners, last, vhosts, globalCfg, picks, regLock, wpc, rpc, commits, detached>>

(* proxy.go 161-162: <-waitFor, then the deferred decrement of active *)
ProxyWait(id) ==
    \E x \in sessions :
        /\ x.id = id
        /\ x.pc = "wait"
        /\ BothClosed(x)
        /\ sessions' = (sessions \ {x}) \cup {[x EXCEPT !.pc = "returned"]}
        /\ rr' = [rr EXCEPT !.Backends[1] = AfterReturn(@)]
        /\ UNCHANGED <<svcs, listeners, last, vhosts, globalCfg, picks, regLock, wpc, rpc, commits, detached>>

InitProxy ==
    /\ svcs = EmptyMap
    /\ listeners = {}
    /\ last = NoResult
    /\ vhosts = EmptyMap
    /\ globalCfg = NoGlobal
    /\ \E t \in {0, MaxTimeout} :
          rr = WithCounters(NewService(SvcConfig("rr", "a1", "RR", BackendList(1), <<>>, t)))
    /\ picks = <<>>
    /\ regLock = {}
    /\ wpc = [pc |-> "idle"]
    /\ rpc = [pc |-> "idle"]
    /\ commits = {}
    /\ sessions = {}
    /\ detached = {}

NextProxy ==
    \/ ProxyEnter
    \/ \E id \in 1..MaxCalls, ok \in BOOLEAN : ProxyDial(id, ok)
    \/ \E id \in 1..MaxCalls, copyErr \in BOOLEAN : BrokerUp(id, copyErr)
    \/ \E id \in 1..MaxCalls, copyErr \in BOOLEAN : BrokerDown(id, copyErr)
    \/ \E id \in 1..MaxCalls, first \in {"client", "backend"} : ProxySelect(id, first)
    \/ \E id \in 1..MaxCalls : ProxyWait(id)

SpecProxy == InitProxy /\ [][NextProxy]_vars

(* the sessions that were counted in and have not returned *)
CountedIn == {x \in sessions : x.pc \in {"select", "wait"}}

(* C21: active is never negative and equals the number of sessions counted *)
(* in and not yet returned; it is 0 once every session has ended.          *)
C21_ActiveCountsSessions ==
    /\ rr.Backends[1].Active >= 0
    /\ rr.Backends[1].Active = Cardinality(CountedIn)
    /\ (\A x \in sessions : x.pc = "returned") => rr.Backends[1].Active = 0

(* three sessions were counted in and all of them have returned *)
C21_Witness ==
    /\ Cardinality(sessions) = MaxCalls
    /\ \A x \in sessions : x.pc = "returned" /\ x.bConn = "closed"
    /\ rr.Backends[1].Conns = MaxCalls
    /\ rr.Backends[1].Active = 0

(* C22: conns counts every call of Proxy whose dial has been attempted,    *)
(* the calls whose dial failed included.                                   *)
C22_ConnsCountsEveryCall ==
    rr.Backends[1].Conns = Cardinality({x \in sessions : x.pc # "dial"})

(* C30: when Proxy has returned after a successful dial both brokers have  *)
(* finished and the client and the upstream connection are closed.         *)
C30_ClosedOnReturn ==
    \A x \in sessions :
        (x.pc = "returned" /\ x.bConn # "none")
            => /\ x.up = "done"
               /\ x.down = "done"
               /\ x.conn = "closed"
               /\ x.bConn = "closed"

(* a Proxy whose upstream closed first has returned *)
C30_Witness ==
    \E x \in sessions :
        /\ x.pc = "returned"
        /\ x.bConn = "closed"
        /\ x.waitFor = "client"

----------------------------------------------------------------------------
(* The life of a service's backends and of their health-check goroutines:  *)
(* Service.add, remove and stop, part_004 182-287, with Backend.Start,     *)
(* Stop and healthCheck, server_test.go 172-220.                           *)

MaxStarts == 2
MaxDetached == 1
MaxAccepts == 1

(* a Do that runs its function on every call *)
OnceDo_always(b) ==
    [b EXCEPT !.starts = @ - 1, !.once = TRUE, !.loops = @ + 1,
              !.armed = (b.stopCheck = "open")]

(* startCheck.Do(b.healthCheck): the first goroutine to arrive runs the    *)
(* loop and creates the timer of its first select, server_test.go 212-216; *)
(* a later one waits for the first and returns.                            *)
OnceDo(b) ==
    IF b.once THEN [b EXCEPT !.starts = @ - 1]
    ELSE [b EXCEPT !.starts = @ - 1, !.once = TRUE, !.loops = @ + 1,
                   !.armed = (b.stopCheck = "open")]

(* case <-time.After(b.checkInterval): b.check(), then the next select     *)
(* with a new timer                                                        *)
Tick(b, ok) ==
    [check(b, ok) EXCEPT !.armed = (b.stopCheck = "open"),
                         !.lateChecks = @ + (IF b.stopCheck = "closed" THEN 1 ELSE 0)]

(* case <-b.stopCheck: return *)
LoopReturn(b) == [b EXCEPT !.loops = @ - 1, !.armed = FALSE]

(* the Backend objects whose goroutines may still run *)
Objects == Range(rr.Backends) \cup detached

(* no goroutine of b is left *)
Finished(b) == b.stopCheck = "closed" /\ b.starts = 0 /\ b.loops = 0

(* object b becomes b2, in the list or among the objects no list holds;    *)
(* one of those is garbage once its goroutines have returned               *)
Becomes(b, b2) ==
    IF b \in detached
    THEN /\ detached' = (detached \ {b}) \cup (IF Finished(b2) THEN {} ELSE {b2})
         /\ rr' = rr
    ELSE /\ rr' = [rr EXCEPT !.Backends[IndexOf(rr.Backends, LAMBDA x : x = b)] = b2]
         /\ detached' = detached

(* an add or remove that leaves the health check of the old backend running *)
StoppedBy_none(s, name) == {}

(* the backend of that name after the Stop that add and remove give it *)
StoppedBy(s, name) ==
    LET i == IndexOf(s.Backends, LAMBDA x : x.Name = name)
    IN  IF i = 0 THEN {} ELSE {BackendStop(s.Backends[i])}

(* the backends NewService replaced while it read the config *)
RECURSIVE AddAllStopped(_, _)
AddAllStopped(s, cfgs) ==
    IF cfgs = <<>> THEN {}
    ELSE StoppedBy(s, Head(cfgs).Name)
            \cup AddAllStopped(ServiceAdd(s, NewBackend(Head(cfgs))), Tail(cfgs))

LifeResult(op, name, ok, pos) == [op |-> op, name |-> name, ok |-> ok, pos |-> pos]

GoStep == LifeResult("go", "", TRUE, 0)

(* a panic has not ended the process *)
Alive == last.op # "panic"

(* Service.add of a backend named name.  No caller reaches a service that  *)
(* was stopped: the registry forgets it first, part_007 23-34.             *)
LifeAdd(name) ==
    LET i == IndexOf(rr.Backends, LAMBDA x : x.Name = name)
    IN  /\ Alive
        /\ rr.listener = "open"
        /\ i = 0 => Len(rr.Backends) < MaxBackends
        /\ i # 0 => Cardinality(detached) < MaxDetached
        /\ rr' = ServiceAdd(rr, NewBackend(BackendConfig(name, 1)))
        /\ detached' = detached \cup StoppedBy(rr, name)
        /\ last' = LifeResult("add", name, TRUE, i)
        /\ UNCHANGED <<svcs, listeners, vhosts, globalCfg, picks, regLock, wpc, rpc, commits, sessions>>

(* Service.remove(name) *)
LifeRemove(name) ==
    LET i == IndexOf(rr.Backends, LAMBDA x : x.Name = name)
    IN  /\ Alive
        /\ rr.listener = "open"
        /\ i # 0 => Cardinality(detached) < MaxDetached
        /\ rr' = ServiceRemove(rr, name)
        /\ detached' = detached \cup StoppedBy(rr, name)
        /\ last' = LifeResult("remove", name, i # 0, i)
        /\ UNCHANGED <<svcs, listeners, vhosts, globalCfg, picks, regLock, wpc, rpc, commits, sessions>>

(* the goroutines of b end with the process *)
Killed(b) == [b EXCEPT !.starts = 0, !.loops = 0, !.armed = FALSE]

(* Service.stop, part_004 270-287: every backend of the list is stopped,   *)
(* then the listener is closed.  Stopping a backend again panics, and the  *)
(* panic ends the process with all its goroutines.                         *)
LifeStop ==
    /\ Alive
    /\ IF \E i \in 1..Len(rr.Backends) : StopPanics(rr.Backends[i])
       THEN /\ last' = LifeResult("panic", rr.Name, FALSE, 0)
            /\ rr' = [rr EXCEPT !.listener = Nil,
                                !.Backends = [i \in 1..Len(rr.Backends) |->
                                                 Killed(rr.Backends[i])]]
            /\ listeners' = {}
            /\ detached' = {}
            /\ wpc' = [wpc EXCEPT !.pc = "exited"]
       ELSE /\ rr' = [rr EXCEPT !.listener = Nil,
                                !.Backends = [i \in 1..Len(rr.Backends) |->
                                                 BackendStop(rr.Backends[i])]]
            /\ listeners' = ListenersAfterStop(rr, listeners)
            /\ last' = LifeResult("stop", rr.Name, TRUE, 0)
            /\ UNCHANGED <<wpc, detached>>
    /\ UNCHANGED <<svcs, vhosts, globalCfg, picks, regLock, rpc, commits, sessions>>

(* Backend.Start called once more on a backend of the list *)
LifeStart(b) ==
    /\ Alive
    /\ b \in Range(rr.Backends)
    /\ b.starts + b.loops < MaxStarts
    /\ Becomes(b, BackendStart(b))
    /\ last' = GoStep
    /\ UNCHANGED <<svcs, listeners, vhosts, globalCfg, picks, regLock, wpc, rpc, commits, sessions>>

(* a goroutine spawned by Start reaches startCheck.Do *)
TaskBegin(b) ==
    /\ Alive
    /\ b \in Objects
    /\ b.starts > 0
    /\ Becomes(b, OnceDo(b))
    /\ last' = GoStep
    /\ UNCHANGED <<svcs, listeners, vhosts, globalCfg, picks, regLock, wpc, rpc, commits, sessions>>

(* the timer of the select fires and check() runs *)
TaskTick(b, ok) ==
    /\ Alive
    /\ b \in Objects
    /\ b.loops > 0
    /\ b.armed
    /\ Becomes(b, Tick(b, ok))
    /\ last' = GoStep
    /\ UNCHANGED <<svcs, listeners, vhosts, globalCfg, picks, regLock, wpc, rpc, commits, sessions>>

(* the select finds stopCheck closed and the loop returns *)
TaskExit(b) ==
    /\ Alive
    /\ b \in Objects
    /\ b.loops > 0
    /\ b.stopCheck = "closed"
    /\ Becomes(b, LoopReturn(b))
    /\ last' = GoStep
    /\ UNCHANGED <<svcs, listeners, vhosts, globalCfg, picks, regLock, wpc, rpc, commits, sessions>>

(* an Accept that returns a connection whatever became of the listener *)
Accepts_always(s) == TRUE

(* listener.Accept returns a connection while the listener is open *)
Accepts(s) == s.listener = "open"

(* Service.run, part_004 245-264: Accept returns a connection, or fails    *)
(* once the listener is closed and the loop returns                        *)
LifeAccept ==
    /\ Alive
    /\ wpc.pc = "accept"
    /\ Accepts(rr) => wpc.n < MaxAccepts
    /\ wpc' = IF Accepts(rr)
              THEN [wpc EXCEPT !.pc = "next", !.n = @ + 1, !.open = rr.listener = "open"]
              ELSE [wpc EXCEPT !.pc = "exited"]
    /\ last' = GoStep
    /\ UNCHANGED <<svcs, listeners, vhosts, globalCfg, rr, picks, regLock, rpc, commits, sessions, detached>>

(* backend := s.next() and go backend.Proxy(conn), or conn.Close() *)
LifeDispatch ==
    /\ Alive
    /\ wpc.pc = "next"
    /\ rr' = NextBackend(rr).s
    /\ wpc' = [wpc EXCEPT !.pc = "accept"]
    /\ last' = LifeResult("dispatch", IF NextBackend(rr).b = Nil THEN "" ELSE NextBackend(rr).b,
                          wpc.open, NextBackend(rr).idx)
    /\ UNCHANGED <<svcs, listeners, vhosts, globalCfg, picks, regLock, rpc, commits, sessions, detached>>

LifeNames == {BName[i] : i \in 1..MaxBackends}

LifeConfigs ==
    {SvcConfig("rr", "a1", "LC", bs, <<>>, MaxTimeout) :
        bs \in BackendCfgLists \cup {BackendList(1) \o BackendList(1)}}

InitLife ==
    /\ svcs = EmptyMap
    /\ last = LifeResult("init", "", TRUE, 0)
    /\ vhosts = EmptyMap
    /\ globalCfg = NoGlobal
    /\ \E cfg \in LifeConfigs :
          /\ rr = ServiceStart(NewService(cfg), {})
          /\ listeners = ListenersAfterStart(NewService(cfg), {})
          /\ detached = AddAllStopped(NewService([cfg EXCEPT !.Backends = <<>>]), cfg.Backends)
    /\ picks = <<>>
    /\ regLock = {}
    /\ wpc = [pc |-> "accept", n |-> 0, open |-> TRUE]
    /\ rpc = [pc |-> "idle"]
    /\ commits = {}
    /\ sessions = {}

NextLife ==
    \/ \E name \in LifeNames : LifeAdd(name)
    \/ \E name \in LifeNames : LifeRemove(name)
    \/ LifeStop
    \/ \E b \in Objects : LifeStart(b)
    \/ \E b \in Objects : TaskBegin(b)
    \/ \E b \in Objects, ok \in BOOLEAN : TaskTick(b, ok)
    \/ \E b \in Objects : TaskExit(b)
    \/ LifeAccept
    \/ LifeDispatch

SpecLife == InitLife /\ [][NextLife]_vars

(* The scheduler runs every goroutine that can take a step: the accept     *)
(* loop, and the health-check goroutines.                                  *)
SpecLifeFair ==
    /\ SpecLife
    /\ WF_vars(LifeAccept)
    /\ WF_vars(LifeDispatch)
    /\ WF_vars(\E b \in Objects : TaskBegin(b))
    /\ WF_vars(\E b \in Objects : TaskExit(b))

(* the index of the backend called name in a list, 0 when none is *)
Lookup(bs, name) == IndexOf(bs, LAMBDA x : x.Name = name)

C27_OneCheckTask ==
    \A b \in Objects :
        /\ b.loops <= 1
        /\ b.loops = 1 => b.once
        /\ ~b.once => b.up

(* the task runs while the goroutine of another Start is on its way to Do *)
C27_Witness ==
    \E b \in Range(rr.Backends) : b.loops = 1 /\ b.starts >= 1 /\ b.up

(* C28: Stop on a backend that was stopped already, as when Service.stop   *)
(* runs a second time, is a no-op that does not fail; and Stop on a        *)
(* backend whose health-check task has not begun prevents every check.     *)
C28_StopIsIdempotent ==
    /\ last.op # "panic"
    /\ \A b \in Objects : b.early => b.lateChecks = 0

(* Service.stop closed the listener and stopped every backend of the list, *)
(* and a stopped health-check task runs one more check at most             *)
StopStops ==
    /\ rr.listener = Nil =>
          /\ \A i \in 1..Len(rr.Backends) : rr.Backends[i].stopCheck = "closed"
          /\ \A l \in listeners : l.owner # rr.Name
    /\ \A b \in Objects : b.lateChecks <= 1

(* after Service.stop the accept loop exits and every stopped health-check *)
(* task exits                                                              *)
StopEnds ==
    (last.op = "stop") ~>
        (wpc.pc = "exited" /\ \A b \in Objects : b.stopCheck = "closed" => b.loops = 0)

(* C29 as claimed: Service.stop closes the listener and stops the health   *)
(* check of every backend in the service; afterwards the accept loop       *)
(* exits, every health-check task exits by its next tick, and no further   *)
(* connection is dispatched.                                               *)
C29_NoDispatchAfterStop ==
    /\ []StopStops
    /\ StopEnds
    /\ [][last'.op = "dispatch" => rr.listener = "open"]_vars

(* C29 amended: as above, but no further connection is accepted; the one   *)
(* connection the loop accepted before the stop may be dispatched after it *)
C29_NoAcceptAfterStop ==
    /\ []StopStops
    /\ StopEnds
    /\ [][wpc'.n > wpc.n => rr.listener = "open"]_vars
    /\ [][last'.op = "dispatch" => last'.ok]_vars

(* a connection accepted before the stop was dispatched after it *)
C29_Witness ==
    /\ last.op = "dispatch"
    /\ rr.listener = Nil
    /\ Len(rr.Backends) > 0

----------------------------------------------------------------------------
(* One relay with its two peers: what lets each broker's io.Copy return,   *)
(* proxy.go 45-66, 88-100 and 135-162.  wpc holds the two remote ends.     *)

Peers == {"client", "upstream"}

(* the copy from the client returns when the client has closed (EOF), when *)
(* the read deadline of the accepted timeoutConn passes (rwTimeout > 0,    *)
(* proxy.go 51-59), or when data of the client cannot be written to an     *)
(* upstream connection that is closed                                      *)
UpCanEnd(x) ==
    \/ wpc.client = "closed"
    \/ rr.ClientTimeout > 0
    \/ (wpc.client = "sending" /\ x.bConn = "closed")

(* the copy from the upstream returns when the upstream has closed, when   *)
(* CloseRead was called on the upstream connection, when its read deadline *)
(* passes, or when data cannot be written to the closed client connection  *)
DownCanEnd(x) ==
    \/ wpc.upstream = "closed"
    \/ x.bConn = "readclosed"
    \/ rr.ServerTimeout > 0
    \/ (wpc.upstream = "sending" /\ x.conn = "closed")

(* the accept loop hands one connection to Proxy *)
RelayEnter ==
    /\ sessions = {}
    /\ ProxyEnter

RelayDial(ok) ==
    /\ wpc.upstream # "closed" \/ ~ok
    /\ ProxyDial(1, ok)

(* a remote end sends data, or closes its connection *)
PeerActs(who, what) ==
    /\ sessions # {}
    /\ wpc[who] # "closed"
    /\ wpc' = [wpc EXCEPT ![who] = what]
    /\ UNCHANGED <<svcs, listeners, last, vhosts, globalCfg, rr, picks, regLock, rpc, commits, sessions, detached>>

RelayUp ==
    \E x \in sessions :
        /\ UpCanEnd(x)
        /\ BrokerUp(x.id, wpc.client # "closed")

RelayDown ==
    \E x \in sessions :
        /\ DownCanEnd(x)
        /\ BrokerDown(x.id, wpc.upstream # "closed" /\ x.bConn # "readclosed")

RelaySelect == \E first \in Peers : ProxySelect(1, IF first = "client" THEN "client" ELSE "backend")

RelayWait == ProxyWait(1)

InitRelay ==
    /\ svcs = EmptyMap
    /\ listeners = {}
    /\ last = NoResult
    /\ vhosts = EmptyMap
    /\ globalCfg = NoGlobal
    /\ \E ct \in {0, MaxTimeout}, st \in {0, MaxTimeout} :
          rr = WithCounters(NewService(
                  [SvcConfig("rr", "a1", "RR", BackendList(1), <<>>, st)
                      EXCEPT !.ClientTimeout = ct]))
    /\ picks = <<>>
    /\ regLock = {}
    /\ wpc = [client |-> "open", upstream |-> "open"]
    /\ rpc = [pc |-> "idle"]
    /\ commits = {}
    /\ sessions = {}
    /\ detached = {}

NextRelay ==
    \/ RelayEnter
    \/ \E ok \in BOOLEAN : RelayDial(ok)
    \/ \E who \in Peers, what \in {"sending", "closed"} : PeerActs(who, what)
    \/ RelayUp
    \/ RelayDown
    \/ RelaySelect
    \/ RelayWait

SpecRelay == InitRelay /\ [][NextRelay]_vars

(* The scheduler runs Proxy and the brokers when they can take a step; the *)
(* remote ends are free to do nothing.                                     *)
SpecRelayFair ==
    /\ SpecRelay
    /\ WF_vars(RelayUp)
    /\ WF_vars(RelayDown)
    /\ WF_vars(RelaySelect)
    /\ WF_vars(RelayWait)

(* C31: once either direction of a relay has finished, client first or     *)
(* upstream first, the other copy is unblocked and Proxy returns, with no  *)
(* further action of the remaining peer and also with the timeouts 0.      *)
C31_RelayReturns ==
    (\E x \in sessions : x.clientClosed \/ x.backendClosed)
        ~> (\E x \in sessions : x.pc = "returned")

----------------------------------------------------------------------------
(* Service.Stats step by step, part_004 115-141, while Proxy calls update  *)
(* the counters of the backend with atomic adds, proxy.go 117-133.  rpc is *)
(* the caller of Stats.                                                    *)

MaxStatCalls == 2

(* Backend.Stats, server_test.go 132-150: the counters the model keeps *)
CounterStatOf(b) ==
    [Name |-> b.Name, Errors |-> b.Errors, Conns |-> b.Conns, Active |-> b.Active]

(* stats.Errors += b.Errors; stats.Conns += b.Conns; stats.Active +=       *)
(* b.Active, part_004 133-137: the fields of the Backend are read again    *)
AddCounters(stats, b) ==
    [stats EXCEPT !.Errors = @ + b.Errors, !.Conns = @ + b.Conns,
                  !.Active = @ + b.Active]

StatsEnter ==
    /\ Cardinality(sessions) < MaxStatCalls
    /\ ProxyEnter

(* Service.Stats is called: s.Lock(), the ServiceStat is set up *)
StatsCall ==
    /\ rpc.pc \in {"idle", "done"}
    /\ rpc' = [pc |-> IF Len(rr.Backends) = 0 THEN "done" ELSE "snap", i |-> 1,
               stats |-> [Backends |-> <<>>, Errors |-> 0, Conns |-> 0, Active |-> 0]]
    /\ UNCHANGED <<svcs, listeners, last, vhosts, globalCfg, rr, picks, regLock, wpc, commits, sessions, detached>>

(* stats.Backends = append(stats.Backends, b.Stats()) *)
StatsSnap ==
    /\ rpc.pc = "snap"
    /\ rpc' = [rpc EXCEPT !.pc = "sum",
                          !.stats.Backends = Append(@, CounterStatOf(rr.Backends[rpc.i]))]
    /\ UNCHANGED <<svcs, listeners, last, vhosts, globalCfg, rr, picks, regLock, wpc, commits, sessions, detached>>

(* the sums of the loop body, then the next backend or the return *)
StatsSum ==
    /\ rpc.pc = "sum"
    /\ rpc' = [rpc EXCEPT !.pc = IF rpc.i = Len(rr.Backends) THEN "done" ELSE "snap",
                          !.i = @ + 1,
                          !.stats = AddCounters(@, rr.Backends[rpc.i])]
    /\ UNCHANGED <<svcs, listeners, last, vhosts, globalCfg, rr, picks, regLock, wpc, commits, sessions, detached>>

InitStats ==
    /\ InitProxy
    /\ rr.ServerTimeout = 0

NextStats ==
    \/ StatsEnter
    \/ \E id \in 1..MaxStatCalls, ok \in BOOLEAN : ProxyDial(id, ok)
    \/ \E id \in 1..MaxStatCalls, copyErr \in BOOLEAN : BrokerUp(id, copyErr)
    \/ \E id \in 1..MaxStatCalls, copyErr \in BOOLEAN : BrokerDown(id, copyErr)
    \/ \E id \in 1..MaxStatCalls, first \in {"client", "backend"} : ProxySelect(id, first)
    \/ \E id \in 1..MaxStatCalls : ProxyWait(id)
    \/ StatsCall
    \/ StatsSnap
    \/ StatsSum

SpecStats == InitStats /\ [][NextStats]_vars

RECURSIVE SumOf(_, _)
SumOf(bs, f) == IF bs = <<>> THEN 0 ELSE Head(bs)[f] + SumOf(Tail(bs), f)

(* C33: the totals of a service stats snapshot equal the sums of the       *)
(* fields of the backend stats in the same snapshot, also while proxy      *)
(* sessions update the counters.                                           *)
C33_StatsConsistent ==
    rpc.pc = "done" =>
        \A f \in {"Errors", "Conns", "Active"} :
            rpc.stats[f] = SumOf(rpc.stats.Backends, f)

----------------------------------------------------------------------------
(* The mutexes of the registry, of one service and of one of its backends, *)
(* and the order in which the operations take them.  wpc gives each        *)
(* goroutine its operation, its position in it and the locks it holds; rpc *)
(* tells whether the registry holds the service.                           *)

Threads == {"g1", "g2"}

(* the order of the lock discipline: Registry, Service, Backend *)
LockRank == [Registry |-> 1, Service |-> 2, Backend |-> 3]

(* Service.Start, part_003 252-281: s.Lock(), and Registry.Add(s) (part_003 *)
(* 379-384) while the service's lock is held                               *)
StartProg ==
    << <<"lock", "Service">>, <<"lock", "Registry">>, <<"store">>,
       <<"unlock", "Registry">>, <<"unlock", "Service">> >>

(* ServiceRegistry.Add, part_007 15-21: s.Lock(), the service is stored,   *)
(* then svc.Start() runs under the registry's lock                         *)
AddProg ==
    << <<"lock", "Registry">>, <<"store">> >> \o StartProg \o << <<"unlock", "Registry">> >>

(* ServiceRegistry.Remove, part_007 23-34, with Service.Stop, part_003     *)
(* 363-371                                                                 *)
RemoveProg ==
    << <<"lock", "Registry">>, <<"ifreg", 6>>, <<"delete">>,
       <<"lock", "Service">>, <<"unlock", "Service">>, <<"unlock", "Registry">> >>

(* ServiceRegistry.Stats, part_007 42-52, calling Service.Stats and        *)
(* Backend.Stats                                                           *)
RegStatsProg ==
    << <<"lock", "Registry">>, <<"ifreg", 7>>,
       <<"lock", "Service">>, <<"lock", "Backend">>, <<"unlock", "Backend">>,
       <<"unlock", "Service">>, <<"unlock", "Registry">> >>

(* Service.Stats, part_004 115-141, calling Backend.Stats, server_test.go  *)
(* 132-150                                                                 *)
SvcStatsProg ==
    << <<"lock", "Service">>, <<"lock", "Backend">>, <<"unlock", "Backend">>,
       <<"unlock", "Service">> >>

LockProgs ==
    [Start |-> StartProg, Add |-> AddProg, Remove |-> RemoveProg,
     RegStats |-> RegStatsProg, SvcStats |-> SvcStatsProg]

IdleThread == [op |-> "", pc |-> 0, held |-> <<>>]

(* the instruction a goroutine is at, <<>> when it runs no operation *)
Instr(t) ==
    IF wpc[t].op = "" \/ wpc[t].pc > Len(LockProgs[wpc[t].op]) THEN <<>>
    ELSE LockProgs[wpc[t].op][wpc[t].pc]

(* sync.Mutex: a lock is free when no goroutine holds it, the caller       *)
(* included                                                                *)
LockFreeFor(l) == \A u \in Threads : l \notin Range(wpc[u].held)

(* a goroutine calls an operation *)
LockCall(t, op) ==
    /\ wpc[t].op = ""
    /\ wpc' = [wpc EXCEPT ![t] = [op |-> op, pc |-> 1, held |-> <<>>]]
    /\ UNCHANGED <<svcs, listeners, last, vhosts, globalCfg, rr, picks, regLock, rpc, commits, sessions, detached>>

(* Lock() returns *)
LockAcquire(t) ==
    /\ Instr(t) # <<>>
    /\ Instr(t)[1] = "lock"
    /\ LockFreeFor(Instr(t)[2])
    /\ wpc' = [wpc EXCEPT ![t].pc = @ + 1, ![t].held = Append(@, Instr(t)[2])]
    /\ UNCHANGED <<svcs, listeners, last, vhosts, globalCfg, rr, picks, regLock, rpc, commits, sessions, detached>>

(* Unlock() *)
LockRelease(t) ==
    /\ Instr(t) # <<>>
    /\ Instr(t)[1] = "unlock"
    /\ wpc' = [wpc EXCEPT ![t].pc = @ + 1,
                          ![t].held = SelectSeq(@, LAMBDA l : l # Instr(t)[2])]
    /\ UNCHANGED <<svcs, listeners, last, vhosts, globalCfg, rr, picks, regLock, rpc, commits, sessions, detached>>

(* the body under the locks: the map write, the delete, the lookup *)
LockBody(t) ==
    /\ Instr(t) # <<>>
    /\ Instr(t)[1] \in {"store", "delete", "ifreg"}
    /\ rpc' = CASE Instr(t)[1] = "store"  -> [rpc EXCEPT !.registered = TRUE]
                [] Instr(t)[1] = "delete" -> [rpc EXCEPT !.registered = FALSE]
                [] OTHER -> rpc
    /\ wpc' = [wpc EXCEPT ![t].pc = IF Instr(t)[1] = "ifreg" /\ ~rpc.registered
                                    THEN Instr(t)[2] ELSE @ + 1]
    /\ UNCHANGED <<svcs, listeners, last, vhosts, globalCfg, rr, picks, regLock, commits, sessions, detached>>

(* the operation returns *)
LockReturn(t) ==
    /\ wpc[t].op # ""
    /\ Instr(t) = <<>>
    /\ wpc' = [wpc EXCEPT ![t] = IdleThread]
    /\ UNCHANGED <<svcs, listeners, last, vhosts, globalCfg, rr, picks, regLock, rpc, commits, sessions, detached>>

InitLock ==
    /\ svcs = EmptyMap
    /\ listeners = {}
    /\ last = NoResult
    /\ vhosts = EmptyMap
    /\ globalCfg = NoGlobal
    /\ rr = NewService(SvcConfig("rr", "a1", "RR", BackendList(1), <<>>, 0))
    /\ picks = <<>>
    /\ regLock = {}
    /\ wpc = [t \in Threads |-> IdleThread]
    /\ rpc = [registered |-> FALSE]
    /\ commits = {}
    /\ sessions = {}
    /\ detached = {}

NextLock ==
    \/ \E t \in Threads, op \in DOMAIN LockProgs : LockCall(t, op)
    \/ \E t \in Threads : LockAcquire(t)
    \/ \E t \in Threads : LockRelease(t)
    \/ \E t \in Threads : LockBody(t)
    \/ \E t \in Threads : LockReturn(t)

SpecLock == InitLock /\ [][NextLock]_vars

(* the lock a goroutine is about to take *)
Wants(t) == IF Instr(t) # <<>> /\ Instr(t)[1] = "lock" THEN {Instr(t)[2]} ELSE {}

(* a set of goroutines each waiting for a lock one of the set holds *)
Deadlocked ==
    \E D \in SUBSET Threads :
        /\ D # {}
        /\ \A t \in D : \E l \in Wants(t), u \in D : l \in Range(wpc[u].held)

(* C32: locks are taken in the order Registry, Service, Backend only, no   *)
(* operation takes a lock it already holds, and no set of concurrent       *)
(* registry, service and backend operations deadlocks.                     *)
C32_LockOrder ==
    /\ \A t \in Threads : \A l \in Wants(t) : \A h \in Range(wpc[t].held) :
          LockRank[h] < LockRank[l]
    /\ ~Deadlocked

(* C36: after any interleaving of add, remove and roundRobin selections    *)
(* the cursor lastBackend is a valid (0-based) index of a non-empty list,  *)
(* so no selection indexes past the end of the list.                       *)
C36_CursorInRange ==
    /\ Len(rr.Backends) > 0 => rr.lastBackend < Len(rr.Backends)
    /\ last.op # "panic"

(* C37: with at least one backend in the list roundRobin and leastConn     *)
(* return a backend of the list, never nil, whatever the weights and the   *)
(* active counts and also while backends are added; nil is returned only   *)
(* for an empty list.                                                      *)
C37_NeverNilWhenNonEmpty ==
    last.op = "dispatch" =>
        IF Len(rr.Backends) > 0
        THEN /\ last.idx \in 1..Len(rr.Backends)
             /\ last.b = rr.Backends[last.idx].Name
        ELSE last.b = Nil

----------------------------------------------------------------------------
(* NewService and Service.Config, part_004 77-113 and 143-163: a service   *)
(* is created from a config, and another one from the Config() of the      *)
(* first.                                                                  *)

ConfigCfgs ==
    {[SvcConfig("s1", "a1", bal, bs, <<>>, t)
         EXCEPT !.CheckInterval = ci, !.Rise = rise, !.Fall = rise, !.DialTimeout = t]
        : bal \in {"", "RR", "LC"}, bs \in BackendCfgLists,
          t \in 0..MaxTimeout, ci \in {0, DefaultCheck + 1}, rise \in {0, DefaultRise + 1}}

(* service := NewService(svcCfg) *)
ConfigCreate(cfg) ==
    /\ last.op = "init"
    /\ rr' = NewService(cfg)
    /\ last' = [op |-> "create", cfg |-> cfg, first |-> ServiceConfigOf(NewService(cfg))]
    /\ UNCHANGED <<svcs, listeners, vhosts, globalCfg, picks, regLock, wpc, rpc, commits, sessions, detached>>

(* NewService(service.Config()): the saved config is loaded again *)
ConfigRecreate ==
    /\ last.op = "create"
    /\ rr' = NewService(ServiceConfigOf(rr))
    /\ last' = [last EXCEPT !.op = "recreate"]
    /\ UNCHANGED <<svcs, listeners, vhosts, globalCfg, picks, regLock, wpc, rpc, commits, sessions, detached>>

InitConfig ==
    /\ svcs = EmptyMap
    /\ listeners = {}
    /\ last = [op |-> "init", cfg |-> <<>>, first |-> <<>>]
    /\ vhosts = EmptyMap
    /\ globalCfg = NoGlobal
    /\ Idle

NextConfig ==
    \/ \E cfg \in ConfigCfgs : ConfigCreate(cfg)
    \/ ConfigRecreate

SpecConfig == InitConfig /\ [][NextConfig]_vars

(* the config a service is created with, after the defaults of NewService *)
AfterDefaults(cfg) ==
    [Name |-> cfg.Name, Addr |-> cfg.Addr, Balance |-> cfg.Balance,
     CheckInterval |-> IF cfg.CheckInterval = 0 THEN DefaultCheck ELSE cfg.CheckInterval,
     Fall |-> IF cfg.Fall = 0 THEN DefaultFall ELSE cfg.Fall,
     Rise |-> IF cfg.Rise = 0 THEN DefaultRise ELSE cfg.Rise,
     ClientTimeout |-> cfg.ClientTimeout, ServerTimeout |-> cfg.ServerTimeout,
     DialTimeout |-> cfg.DialTimeout, Backends |-> cfg.Backends]

(* C35: Config() returns the configuration the service was created with,   *)
(* after defaults: name, address, balance, check interval, fall, rise, the *)
(* three timeouts in milliseconds and the backends; a service created from *)
(* the Config() of a service has an equal configuration.                   *)
C35_ConfigRoundTrip ==
    /\ last.op = "create" => ServiceConfigOf(rr) = AfterDefaults(last.cfg)
    /\ last.op = "recreate" =>
          /\ ServiceConfigOf(rr) = last.first
          /\ ServiceConfigOf(rr) = AfterDefaults(last.cfg)

----------------------------------------------------------------------------
(* The backend list under add and remove, and the accept loop between its  *)
(* selection and the start of the session: part_004 182-222 and 256-264,   *)
(* part_002.  picks lists the names of the backends in the list in the     *)
(* order they were first added; wpc is the accept goroutine with the       *)
(* backend s.next() gave it.                                               *)

PickNames == {BName[i] : i \in 1..MaxRRBackends}

NamesOf(bs) == [i \in 1..Len(bs) |-> bs[i].Name]

(* the accept goroutine holds a backend that add or remove stops *)
PickedStopped(name) ==
    IF wpc.pc = "picked" /\ wpc.b = name /\ Lookup(rr.Backends, name) # 0
    THEN [wpc EXCEPT !.stopped = TRUE]
    ELSE wpc

(* Service.add(NewBackend(cfg)) *)
PickAdd(name) ==
    /\ last.op # "panic"
    /\ Lookup(rr.Backends, name) = 0 => Len(rr.Backends) < MaxRRBackends
    /\ rr' = ServiceAdd(rr, NewBackend(BackendConfig(name, 1)))
    /\ detached' = detached \cup StoppedBy(rr, name)
    /\ picks' = IF Lookup(rr.Backends, name) = 0 THEN Append(picks, name) ELSE picks
    /\ wpc' = PickedStopped(name)
    /\ last' = [op |-> "add", name |-> name]
    /\ UNCHANGED <<svcs, listeners, vhosts, globalCfg, regLock, rpc, commits, sessions>>

(* Service.remove(name) *)
PickRemove(name) ==
    /\ last.op # "panic"
    /\ rr' = ServiceRemove(rr, name)
    /\ detached' = detached \cup StoppedBy(rr, name)
    /\ picks' = SelectSeq(picks, LAMBDA n : n # name)
    /\ wpc' = PickedStopped(name)
    /\ last' = [op |-> "remove", name |-> name]
    /\ UNCHANGED <<svcs, listeners, vhosts, globalCfg, regLock, rpc, commits, sessions>>

(* backend := s.next(), part_004 256 *)
PickSelect ==
    /\ last.op # "panic"
    /\ wpc.pc = "accept"
    /\ IF Panics(rr)
       THEN /\ last' = [op |-> "panic", name |-> ""]
            /\ wpc' = [wpc EXCEPT !.pc = "exited"]
            /\ rr' = rr
       ELSE /\ rr' = NextBackend(rr).s
            /\ wpc' = [pc |-> "picked", b |-> NextBackend(rr).b, stopped |-> FALSE]
            /\ last' = [op |-> "select", name |-> NextBackend(rr).b]
    /\ UNCHANGED <<svcs, listeners, vhosts, globalCfg, picks, regLock, rpc, commits, sessions, detached>>

(* conn.Close() for nil, go backend.Proxy(conn) otherwise, part_004 258-264 *)
PickProxy ==
    /\ last.op # "panic"
    /\ wpc.pc = "picked"
    /\ wpc' = [wpc EXCEPT !.pc = "accept"]
    /\ last' = [op |-> IF wpc.b = Nil THEN "close" ELSE "proxy", name |-> wpc.b]
    /\ UNCHANGED <<svcs, listeners, vhosts, globalCfg, rr, picks, regLock, rpc, commits, sessions, detached>>

InitPick ==
    /\ svcs = EmptyMap
    /\ listeners = {}
    /\ last = [op |-> "init", name |-> ""]
    /\ vhosts = EmptyMap
    /\ globalCfg = NoGlobal
    /\ \E bal \in {"RR", "LC"}, n \in 0..MaxRRBackends :
          /\ rr = NewService(BalConfig(bal, n))
          /\ picks = NamesOf(BackendList(n))
    /\ regLock = {}
    /\ wpc = [pc |-> "accept", b |-> Nil, stopped |-> FALSE]
    /\ rpc = [pc |-> "idle"]
    /\ commits = {}
    /\ sessions = {}
    /\ detached = {}

NextPick ==
    \/ \E name \in PickNames : PickAdd(name)
    \/ \E name \in PickNames : PickRemove(name)
    \/ PickSelect
    \/ PickProxy

SpecPick == InitPick /\ [][NextPick]_vars

(* C34: the backend list is always in insertion order: the backends that   *)
(* remain after any adds and removes keep the order in which they were     *)
(* added, a replaced one its position, so that leastConn on a tie returns  *)
(* the backend added last.                                                 *)
C34_InsertionOrder ==
    /\ NamesOf(rr.Backends) = picks
    /\ (last.op = "select" /\ rr.next = "leastConn" /\ Len(picks) > 0)
          => last.name = picks[Len(picks)]

============================================================================
